---- MODULE Spec2Model ----
(***************************************************************************)
(* A model of kzpy: the command codec (_command.py), the serial transport  *)
(* (_serial.py), device discovery and command execution (device.py), the   *)
(* unit conversions (validate.py) and the motion controller (motion.py).   *)
(*                                                                         *)
(* Text is modelled as a sequence of one-character strings; the bytes STX, *)
(* CR, LF and TAB are written "STX", "CR", "LF", "TAB".  Physical lengths  *)
(* and velocities are integers (a fixed-point view of the floats the code  *)
(* takes); pulse_per_unit is a positive integer.                           *)
(***************************************************************************)
EXTENDS Integers, Sequences, FiniteSets, TLC

\* ------------------------------------------------------------------ bounds
MaxSlot == 1        \* velocity-table slots are 0..MaxSlot
MaxLen == 2         \* lengths and positions are -MaxLen..MaxLen
MaxVel == 2         \* velocities are 0..MaxVel
MaxPolls == 2       \* read_status polls counted (and logged) per idle wait
MaxPorts == 2       \* serial ports enumerated by list_ports.comports()
MaxDisconnects == 2 \* disconnect calls made on a bound session
MaxKeys == 3        \* keyword arguments supplied to one generate_command call
MaxArg == 2         \* argument values are -1, 0..MaxArg and 12
MaxTokens == 10     \* value tokens of a reply given to parse_response
MaxUnit == 4        \* values given to the unit conversions are -MaxUnit..MaxUnit, 20, 200
MaxAxes == 2        \* axes entries of a configuration file
MaxOps == 3         \* operations executed on a bound session / a transport

\* ------------------------------------------------------------ text helpers
Range(s) == {s[i] : i \in 1..Len(s)}

Max(a, b) == IF a > b THEN a ELSE b

\* Python's int(x) on a number: truncation toward zero of a / b, b > 0.
TruncDiv(a, b) == IF a >= 0 THEN a \div b ELSE -((-a) \div b)

DigitChars == <<"0", "1", "2", "3", "4", "5", "6", "7", "8", "9">>

Whitespace == {" ", "TAB", "CR", "LF"}

RECURSIVE StrNat(_)
StrNat(n) ==
    IF n < 10 THEN <<DigitChars[n + 1]>>
    ELSE StrNat(n \div 10) \o <<DigitChars[(n % 10) + 1]>>

\* str(n) for a Python int.
Str(n) == IF n < 0 THEN <<"-">> \o StrNat(-n) ELSE StrNat(n)

\* A faulty digit test: any suffix counts as digits.
IsDigit_Any(s) == TRUE

\* str.isdigit(): non-empty and every character a digit.
IsDigit(s) == Len(s) > 0 /\ \A i \in 1..Len(s) : s[i] \in Range(DigitChars)

DigitVal(c) == CHOOSE d \in 0..9 : DigitChars[d + 1] = c

RECURSIVE NatVal(_)
NatVal(s) ==
    IF Len(s) = 0 THEN 0
    ELSE 10 * NatVal(SubSeq(s, 1, Len(s) - 1)) + DigitVal(s[Len(s)])

\* int(s) for a string: an optional sign and digits; anything else raises.
IntOk(s) ==
    \/ IsDigit(s)
    \/ Len(s) > 1 /\ s[1] \in {"-", "+"} /\ IsDigit(Tail(s))

IntVal(s) ==
    IF s[1] = "-" THEN -NatVal(Tail(s))
    ELSE IF s[1] = "+" THEN NatVal(Tail(s))
    ELSE NatVal(s)

\* str.split() on the characters of seps: the maximal runs of other characters.
RECURSIVE SplitRuns(_, _, _)
SplitRuns(s, seps, cur) ==
    IF Len(s) = 0 THEN (IF Len(cur) = 0 THEN <<>> ELSE <<cur>>)
    ELSE IF s[1] \in seps
         THEN (IF Len(cur) = 0 THEN <<>> ELSE <<cur>>) \o SplitRuns(Tail(s), seps, <<>>)
         ELSE SplitRuns(Tail(s), seps, Append(cur, s[1]))

\* str.split(sep): every separator ends a field, empty fields kept.
RECURSIVE SplitAll(_, _, _)
SplitAll(s, sep, cur) ==
    IF Len(s) = 0 THEN <<cur>>
    ELSE IF s[1] = sep
         THEN <<cur>> \o SplitAll(Tail(s), sep, <<>>)
         ELSE SplitAll(Tail(s), sep, Append(cur, s[1]))

StartsWith(s, p) == Len(s) >= Len(p) /\ SubSeq(s, 1, Len(p)) = p

\* A faulty pairing: the fields taken from the far end.
IndexOf_Reversed(fields, f) ==
    Len(fields) + 1 - (CHOOSE i \in 1..Len(fields) : fields[i] = f)

\* The position of field f in the list fields (fields hold no duplicates).
IndexOf(fields, f) == CHOOSE i \in 1..Len(fields) : fields[i] = f

\* A faulty selection: the supplied fields in the reverse of the declared order.
RECURSIVE Filter_Reversed(_, _)
Filter_Reversed(fields, keys) ==
    IF Len(fields) = 0 THEN <<>>
    ELSE Filter_Reversed(Tail(fields), keys)
         \o (IF fields[1] \in keys THEN <<fields[1]>> ELSE <<>>)

\* [x for x in fields if x in keys]
RECURSIVE Filter(_, _)
Filter(fields, keys) ==
    IF Len(fields) = 0 THEN <<>>
    ELSE (IF fields[1] \in keys THEN <<fields[1]>> ELSE <<>>) \o Filter(Tail(fields), keys)

\* Optional values: None, or Some(v).
None == [none |-> TRUE]

Some(v) == [val |-> v]

\* ------------------------------------------------------- _command.py: codec
default_map == [
    move_free |-> [code |-> <<"F", "R", "P">>,
                   args |-> <<"ax_num", "vel_no", "dir">>,
                   res_c |-> <<"ax_num">>,
                   res_e |-> <<"ax_num", "error_num">>],
    move_relative |-> [code |-> <<"R", "P", "S">>,
                       args |-> <<"ax_num", "vel_no", "length", "pat">>,
                       res_c |-> <<"ax_num">>,
                       res_e |-> <<"ax_num", "error_num">>],
    move_absolute |-> [code |-> <<"A", "P", "S">>,
                       args |-> <<"ax_num", "vel_no", "length", "pat">>,
                       res_c |-> <<"ax_num">>,
                       res_e |-> <<"ax_num", "error_num">>],
    move_stop |-> [code |-> <<"S", "T", "P">>,
                   args |-> <<"ax_num", "pat">>,
                   res_c |-> <<"ax_num">>,
                   res_e |-> <<"ax_num", "error_num">>],
    home |-> [code |-> <<"O", "R", "G">>,
              args |-> <<"ax_num", "vel_no", "pat">>,
              res_c |-> <<"ax_num">>,
              res_e |-> <<"ax_num", "error_num">>],
    identify |-> [code |-> <<"I", "D", "N">>,
                  args |-> <<>>,
                  res_c |-> <<"dev_name", "dev_var", "minor_ver", "release_ver">>,
                  res_e |-> <<>>],
    read_position |-> [code |-> <<"R", "D", "P">>,
                       args |-> <<"ax_num">>,
                       res_c |-> <<"ax_num", "pos">>,
                       res_e |-> <<>>],
    read_vel_tbl |-> [code |-> <<"R", "T", "B">>,
                      args |-> <<"ax_num", "vel_no">>,
                      res_c |-> <<"ax_num", "vel_no", "start_vel", "max_vel",
                                  "acc_time", "acc_type">>,
                      res_e |-> <<"ax_num", "error_num">>],
    read_status |-> [code |-> <<"S", "T", "R">>,
                     args |-> <<"ax_num">>,
                     res_c |-> <<"ax_num", "status", "org_sta", "norg_sta",
                                 "ccw_sta", "cw_sta">>,
                     res_e |-> <<"ax_num", "error_num">>],
    write_vel_tbl |-> [code |-> <<"W", "T", "B">>,
                       args |-> <<"ax_num", "vel_no", "start_vel", "max_vel",
                                  "acc_time", "acc_type">>,
                       res_c |-> <<"ax_num">>,
                       res_e |-> <<"ax_num", "error_num">>]]

\* The entries the aries table adds to or replaces in default_map.
aries_overrides == [
    read_axis |-> [code |-> <<"R", "A", "X">>,
                   args |-> <<>>,
                   res_c |-> <<"ax_num", "control_num", "island_0", "island_1",
                               "island_2", "island_3", "island_4", "island_5",
                               "island_6", "island_7">>,
                   res_e |-> <<"error_num">>],
    read_vel_tbl |-> [code |-> <<"R", "T", "B">>,
                      args |-> <<"ax_num", "vel_no">>,
                      res_c |-> <<"ax_num", "vel_no", "start_vel", "max_vel",
                                  "acc_time", "dec_time", "acc_type",
                                  "acc_pulse", "dec_pulse">>,
                      res_e |-> <<"ax_num", "error_num">>],
    write_vel_tbl |-> [code |-> <<"W", "T", "B">>,
                       args |-> <<"ax_num", "vel_no", "start_vel", "max_vel",
                                  "acc_time", "dec_time", "acc_type">>,
                       res_c |-> <<"ax_num", "vel_no", "start_vel", "max_vel",
                                   "acc_time", "dec_time", "acc_type",
                                   "acc_pulse", "dec_pulse">>,
                       res_e |-> <<"ax_num", "error_num">>],
    read_status |-> [code |-> <<"S", "T", "R">>,
                     args |-> <<"ax_num">>,
                     res_c |-> <<"ax_num", "status", "emg_sta", "org_noorg_sta",
                                 "cw_ccw_sta", "soft_sta", "limit_sta">>,
                     res_e |-> <<"ax_num", "error_num">>]]

aries_command_map ==
    [c \in (DOMAIN default_map) \cup (DOMAIN aries_overrides) |->
        IF c \in DOMAIN aries_overrides THEN aries_overrides[c] ELSE default_map[c]]

\* A faulty selection: the aries table whatever the variant.
cmd_map_AlwaysAries(variant) == aries_command_map

\* CommandProcessor.__init__: the table the variant selects.
cmd_map(variant) == IF variant = "aries" THEN aries_command_map ELSE default_map

STX == <<"STX">>

CRLF == <<"CR", "LF">>

\* A keyword-argument mapping with no entries.
NoArgs == <<>>

\* A faulty join: the values separated by commas.
RECURSIVE SlashJoin_Comma(_)
SlashJoin_Comma(strs) ==
    IF Len(strs) = 0 THEN <<>>
    ELSE <<",">> \o strs[1] \o SlashJoin_Comma(Tail(strs))

RECURSIVE SlashJoin(_)
SlashJoin(strs) ==
    IF Len(strs) = 0 THEN <<>>
    ELSE <<"/">> \o strs[1] \o SlashJoin(Tail(strs))

\* CommandProcessor.generate_command: kwargs maps argument names to integers.
generate_command(variant, command_name, kwargs) ==
    IF command_name \notin DOMAIN cmd_map(variant)
    THEN [kind |-> "ValueError", msg |-> "Invalid command"]
    ELSE LET info == cmd_map(variant)[command_name]
             filtered_args == Filter(info.args, DOMAIN kwargs)
             args_strs == [i \in 1..Len(filtered_args) |-> Str(kwargs[filtered_args[i]])]
             body == IF Len(args_strs) = 0 THEN info.code
                     ELSE info.code \o args_strs[1] \o SlashJoin(Tail(args_strs))
         IN [kind |-> "ok", frame |-> STX \o body \o CRLF]

\* prefix == "C": the success-field list is selected.
IsSuccessPrefix(prefix) == prefix = <<"C">>

\* A faulty error test: no prefix raises.
IsErrorPrefix_Never(prefix) == FALSE

\* prefix == "E": the decoded error reply is raised.
IsErrorPrefix(prefix) == prefix = <<"E">>

\* A faulty fallback test: every command falls back to the base layout.
HasFallback_Every(command) == TRUE

\* command == "read_vel_tbl": the one command with a fallback layout.
HasFallback(command) == command = "read_vel_tbl"

\* CommandProcessor.parse_response: response is the decoded reply text.
parse_response(variant, response, command) ==
    IF command \notin DOMAIN cmd_map(variant)
    THEN [kind |-> "ValueError", msg |-> "Unknown command"]
    ELSE
    LET info == cmd_map(variant)[command]
        all == SplitRuns(response, Whitespace, <<>>)
    IN  IF Len(all) = 0 THEN [kind |-> "ValueError", msg |-> "Empty response"]
        ELSE
        LET prefix == all[1]
            rest == Tail(all)
            code == info.code
            tokens ==
                IF Len(rest) = 0 THEN rest
                ELSE IF rest[1] = code THEN Tail(rest)
                ELSE IF /\ StartsWith(rest[1], code)
                        /\ IsDigit(SubSeq(rest[1], Len(code) + 1, Len(rest[1])))
                     THEN <<SubSeq(rest[1], Len(code) + 1, Len(rest[1]))>> \o Tail(rest)
                     ELSE rest
            fields0 == IF IsSuccessPrefix(prefix) THEN info.res_c ELSE info.res_e
            alt_fields == IF command \in DOMAIN default_map
                          THEN (IF IsSuccessPrefix(prefix) THEN default_map[command].res_c
                                ELSE default_map[command].res_e)
                          ELSE <<>>
            fields == IF /\ Len(tokens) # Len(fields0)
                         /\ HasFallback(command)
                         /\ Len(tokens) = Len(alt_fields)
                      THEN alt_fields ELSE fields0
        IN  IF Len(tokens) # Len(fields)
            THEN [kind |-> "ValueError", msg |-> "length mismatch"]
            ELSE
            LET result == [f \in Range(fields) |-> tokens[IndexOf(fields, f)]]
            IN  IF IsErrorPrefix(prefix)
                THEN [kind |-> "RuntimeError", msg |-> "failed during execution",
                      ax |-> IF "ax_num" \in DOMAIN result
                             THEN <<result["ax_num"]>> ELSE <<>>,
                      err |-> IF "error_num" \in DOMAIN result
                              THEN <<result["error_num"]>> ELSE <<>>]
                ELSE [kind |-> "ok", map |-> result]

\* ------------------------------------------------------------- validate.py
\* get_axis_conf: the first axis of config.axes with the number, else ValueError.
get_axis_conf(config, ax_num) ==
    IF \E i \in 1..Len(config.axes) : config.axes[i].ax_num = ax_num
    THEN [kind |-> "ok",
          val |-> config.axes[CHOOSE i \in 1..Len(config.axes) :
                                 /\ config.axes[i].ax_num = ax_num
                                 /\ \A j \in 1..(i - 1) : config.axes[j].ax_num # ax_num]]
    ELSE [kind |-> "ValueError", msg |-> "Axis not defined in config"]

\* A faulty range check: the upper bound excluded.
validate_position_pulse_Exclusive(pulse, axis) ==
    IF pulse < axis.min_pulse \/ pulse >= axis.max_pulse
    THEN [kind |-> "ValueError", msg |-> "Position pulse out of range"]
    ELSE [kind |-> "ok", val |-> pulse]

validate_position_pulse(pulse, axis) ==
    IF pulse < axis.min_pulse \/ pulse > axis.max_pulse
    THEN [kind |-> "ValueError", msg |-> "Position pulse out of range"]
    ELSE [kind |-> "ok", val |-> pulse]

validate_velocity_pulse(pulse, axis) ==
    IF pulse < 0 \/ pulse > axis.max_speed_pulse
    THEN [kind |-> "ValueError", msg |-> "Velocity pulse exceeds max_speed_pulse"]
    ELSE [kind |-> "ok", val |-> pulse]

\* int(length / axis.pulse_per_unit), then the range check.
length_unit_to_pulse(length, axis) ==
    validate_position_pulse(TruncDiv(length, axis.pulse_per_unit), axis)

\* int(velocity / axis.pulse_per_unit), then the range check.
velocity_unit_to_pulse(velocity, axis) ==
    validate_velocity_pulse(TruncDiv(velocity, axis.pulse_per_unit), axis)

\* (min_acc_time, max_acc_time) and (min_dec_time, max_dec_time)
ACC_TIME_RANGE == <<1, 10000>>

DEC_TIME_RANGE == <<1, 10000>>

\* The acc_type values each variant allows.
ACC_TYPE_OPTIONS == [default |-> {1, 2}, aries |-> {1, 2, 3}]

validate_acc_time(acc_time, axis) ==
    IF acc_time < ACC_TIME_RANGE[1] \/ acc_time > ACC_TIME_RANGE[2]
    THEN [kind |-> "ValueError", msg |-> "acc_time out of global range"]
    ELSE [kind |-> "ok", val |-> acc_time]

validate_dec_time(dec_time, axis) ==
    IF dec_time < DEC_TIME_RANGE[1] \/ dec_time > DEC_TIME_RANGE[2]
    THEN [kind |-> "ValueError", msg |-> "dec_time out of global range"]
    ELSE [kind |-> "ok", val |-> dec_time]

\* ACC_TYPE_OPTIONS.get(variant, ACC_TYPE_OPTIONS['default'])
validate_acc_type(acc_type, v) ==
    LET valid == IF v \in DOMAIN ACC_TYPE_OPTIONS THEN ACC_TYPE_OPTIONS[v]
                 ELSE ACC_TYPE_OPTIONS["default"]
    IN  IF acc_type \notin valid
        THEN [kind |-> "ValueError", msg |-> "acc_type invalid for variant"]
        ELSE [kind |-> "ok", val |-> acc_type]

\* A faulty inverse: the pulse count divided by pulse_per_unit.
pulse_to_length_unit_Divided(pulse, axis) ==
    IF validate_position_pulse(pulse, axis).kind # "ok"
    THEN validate_position_pulse(pulse, axis)
    ELSE [kind |-> "ok", val |-> TruncDiv(pulse, axis.pulse_per_unit)]

\* The range check, then pulse * axis.pulse_per_unit.
pulse_to_length_unit(pulse, axis) ==
    IF validate_position_pulse(pulse, axis).kind # "ok"
    THEN validate_position_pulse(pulse, axis)
    ELSE [kind |-> "ok", val |-> pulse * axis.pulse_per_unit]

\* The range check, then pulse * axis.pulse_per_unit.
pulse_to_velocity_unit(pulse, axis) ==
    IF validate_velocity_pulse(pulse, axis).kind # "ok"
    THEN validate_velocity_pulse(pulse, axis)
    ELSE [kind |-> "ok", val |-> pulse * axis.pulse_per_unit]

\* ---------------------------------------------------------------- the state
VARIABLES
    \* Device: the bound session
    cfg,                \* DeviceConfig: device name and axes
    variant,            \* CommandProcessor.variant (selects cmd_map)
    target_vel_no,      \* Device.target_vel_no
    restore_vel_table,  \* Device.restore_vel_table
    \* the controller at the other end of the line
    devLayout,          \* the command table the controller itself speaks
    devShortRtb,        \* the controller answers read_vel_tbl in the base layout
    devBusy,            \* the axis is moving
    devTbl,             \* the controller's velocity table: slot -> entry
    wire,               \* the line: frames not yet answered, reply lines not yet read
    \* MotionController: the call in progress
    pc,                 \* position in the running operation
    call,               \* the operation and its arguments
    table_no,           \* vel_no or target_vel_no
    pulse,              \* pulse_len / pulse_pos / pulse_vel of the call
    orig,               \* None, or the entry read before the override
    resp,               \* None, or the decoded reply of the motion command
    exc,                \* the exception the call ended with ([kind |-> "none"] if none)
    polls,              \* read_status polls of the current idle wait (saturates)
    sent                \* the commands executed by this call, in order, with their replies

motionVars == <<cfg, variant, target_vel_no, restore_vel_table, devLayout, devShortRtb,
                devBusy,
                devTbl, wire, pc, call, table_no, pulse, orig, resp, exc, polls, sent>>

VARIABLES
    \* Device.connect and the transport
    ports,              \* list_ports.comports(): what is behind each port, in order
    isOpen,             \* port -> a serial.Serial handle on it is open
    cstate,             \* position in Device.connect / the session's life
    cargs,              \* None, or the arguments connect was called with
    idx,                \* the port being tried
    serial_io,          \* None, or the SerialIO in hand (Device._serial once bound)
    trace,              \* the transport calls made by connect, in order
    connErr,            \* the exception connect / disconnect ended with
    closes,             \* disconnect calls made so far
    ops                 \* operations executed on the transport / the session so far

connectVars == <<ports, isOpen, cstate, cargs, idx, serial_io, trace, connErr, closes,
                 ops>>

VARIABLES
    \* CommandProcessor: one call of the codec
    cin,                \* None, or the call: generate_command / parse_response and its arguments
    cout                \* None, or what the call returned or raised

codecVars == <<cin, cout>>

Slots == 0..MaxSlot

Lengths == (-MaxLen)..MaxLen

Velocities == 0..MaxVel

NoExc == [kind |-> "none"]

\* A quiet line: every frame written was answered and every reply line read.
Quiet == [pending |-> <<>>, inbuf |-> <<>>]

\* Calibrations the session may have been loaded with (one axis, number 1).
AxisConfs ==
    {[name |-> "x", ax_num |-> 1, units |-> "um", min_pulse |-> -1, max_pulse |-> 1,
      max_speed_pulse |-> 1, pulse_per_unit |-> p] : p \in {1, 2}}

\* Entries a velocity-table slot may hold when the session starts, and the
\* tables built from them (neighbouring slots differ).
InitEntries ==
    <<[start_vel |-> 0, max_vel |-> 0, acc_time |-> 1, dec_time |-> 1, acc_type |-> 1],
      [start_vel |-> 1, max_vel |-> 2, acc_time |-> 3, dec_time |-> 2, acc_type |-> 2]>>

\* The calibrations: the device name, the axes and the serial settings.
Configs ==
    {[device |-> <<"A">>, axes |-> <<a>>, serial |-> [baudrate |-> 9600, parity |-> "N"]] :
        a \in AxisConfs}

InitTables == {[s \in Slots |-> InitEntries[((s + b) % 2) + 1]] : b \in {0, 1}}

\* ------------------------------------------- the controller (the environment)
\* The controller reads a frame STX code values CR LF, the values '/'-separated.
DevDecode(frame) ==
    LET body == SubSeq(frame, 2, Len(frame) - 2)
        text == SubSeq(body, 4, Len(body))
        parts == IF Len(text) = 0 THEN <<>> ELSE SplitAll(text, "/", <<>>)
    IN  [code |-> SubSeq(body, 1, 3),
         vals |-> [i \in 1..Len(parts) |-> IntVal(parts[i])]]

RECURSIVE TabJoin(_)
TabJoin(vals) ==
    IF Len(vals) = 0 THEN <<>>
    ELSE <<"TAB">> \o Str(vals[1]) \o TabJoin(Tail(vals))

\* A reply line: the prefix, then the echoed code with the axis number fused to
\* it ("C FRP1"), then the remaining values.
DevText(prefix, code, vals) ==
    <<prefix, " ">> \o code \o
    (IF Len(vals) = 0 THEN <<>> ELSE Str(vals[1]) \o TabJoin(Tail(vals)))

\* The value the controller reports for a reply field.
DevField(f, ax, slot, entry, busy) ==
    CASE f = "ax_num" -> ax
      [] f = "vel_no" -> slot
      [] f = "status" -> (IF busy THEN 1 ELSE 0)
      [] f \in DOMAIN entry -> entry[f]
      [] OTHER -> 0

DevValues(fields, ax, slot, entry, busy) ==
    [i \in 1..Len(fields) |-> DevField(fields[i], ax, slot, entry, busy)]

\* What the controller may do with a frame: the reply line, and its table and
\* motion state afterwards.  Any command may be refused with an error reply.
DevHandle(frame, tbl, busy) ==
    LET d == DevDecode(frame)
        table == cmd_map(devLayout)
        names == {n \in DOMAIN table : table[n].code = d.code}
        ax == IF Len(d.vals) > 0 THEN d.vals[1] ELSE 0
        refused == [raw |-> DevText("E", d.code, <<ax, 3>>), tbl |-> tbl, busy |-> busy]
    IN  IF names = {} THEN {refused}
        ELSE
        LET name == CHOOSE n \in names : TRUE
            info == table[name]
            slot == IF Len(d.vals) > 1 THEN d.vals[2] ELSE 0
            entry0 == IF slot \in DOMAIN tbl THEN tbl[slot] ELSE [none |-> TRUE]
            written == [f \in DOMAIN entry0 |->
                           IF f \in Range(info.args) THEN d.vals[IndexOf(info.args, f)]
                           ELSE entry0[f]]
            accepted ==
                CASE name \in {"read_status"} ->
                        {[raw |-> DevText("C", d.code,
                                          DevValues(info.res_c, ax, 0, entry0, busy)),
                          tbl |-> tbl, busy |-> busy]}
                  [] name = "read_vel_tbl" /\ Len(d.vals) = 2 /\ slot \in DOMAIN tbl ->
                        {[raw |-> DevText("C", d.code,
                                          DevValues(IF devShortRtb
                                                    THEN default_map[name].res_c
                                                    ELSE info.res_c,
                                                    ax, slot, entry0, busy)),
                          tbl |-> tbl, busy |-> busy]}
                  [] /\ name = "write_vel_tbl"
                     /\ Len(d.vals) = Len(info.args)
                     /\ slot \in DOMAIN tbl ->
                        {[raw |-> DevText("C", d.code,
                                          DevValues(info.res_c, ax, slot, written, busy)),
                          tbl |-> [tbl EXCEPT ![slot] = written], busy |-> busy]}
                  [] name \in {"move_relative", "move_absolute", "home"} ->
                        {[raw |-> DevText("C", d.code, <<ax>>),
                          tbl |-> tbl, busy |-> TRUE]}
                  [] OTHER -> {}
        IN  accepted \cup {refused}

\* ------------------------------------------------- _serial.py: the transport
\* What may be behind an enumerated port: a port that cannot be opened, one
\* whose write or read fails, or one that answers a frame with a line of bytes.
NonAscii == {"xFF"}

\* The identify reply of a controller whose device name is dev.
IdentifyLine(dev) ==
    <<"C", " ", "I", "D", "N", "TAB">> \o dev \o
    <<"TAB", "1", "TAB", "0", "TAB", "0", "CR", "LF">>

PortLines ==
    {IdentifyLine(<<"A">>),                      \* the device named "A"
     <<"xFF">> \o IdentifyLine(<<"A">>),         \* the same after a byte of line noise
     IdentifyLine(<<"B">>),                      \* another device
     <<>>,                                       \* silence: readline() timed out
     <<"C", " ", "I", "D", "N", "TAB", "A", "CR", "LF">>,   \* a truncated reply
     <<"E", " ", "I", "D", "N", "CR", "LF">>}    \* an error reply

PortKinds ==
    {[fault |-> f, line |-> <<>>] : f \in {"open", "write", "read"}}
    \cup {[fault |-> "none", line |-> l] : l \in PortLines}

\* SerialIO.__init__ (the timeout plays no part in what follows).
SerialIO(port, baudrate) == [port |-> port, baudrate |-> baudrate, ser |-> "none"]

\* serial.Serial(port=...): the handle, or SerialException.
OpenPort(p) ==
    IF p.fault = "open" THEN [kind |-> "SerialException", msg |-> "could not open port"]
    ELSE [kind |-> "ok"]

\* A send that writes without looking at self.ser first.
send_Unguarded(s, p) ==
    IF s.ser # "open"
    THEN [kind |-> "AttributeError", msg |-> "NoneType has no write"]
    ELSE IF p.fault = "write"
    THEN [kind |-> "SerialException", msg |-> "write failed"]
    ELSE [kind |-> "ok"]

\* SerialIO.send on the port p behind it.
send(s, p) ==
    IF s.ser # "open"
    THEN [kind |-> "RuntimeError", msg |-> "Serial port is not open (send)"]
    ELSE IF p.fault = "write"
    THEN [kind |-> "SerialException", msg |-> "write failed"]
    ELSE [kind |-> "ok"]

\* SerialIO.receive: one line from the port.
receive(s, p) ==
    IF s.ser # "open"
    THEN [kind |-> "RuntimeError", msg |-> "Serial port is not open (receive)"]
    ELSE IF p.fault = "read"
    THEN [kind |-> "SerialException", msg |-> "read failed"]
    ELSE [kind |-> "ok", raw |-> p.line]

send_and_receive(s, p) ==
    IF send(s, p).kind # "ok" THEN send(s, p) ELSE receive(s, p)

\* A close that calls self.ser.close() without looking at self.ser first.
close_Unguarded(s) ==
    IF s.ser = "open" THEN [io |-> [s EXCEPT !.ser = "none"], exc |-> [kind |-> "none"]]
    ELSE [io |-> s, exc |-> [kind |-> "AttributeError", msg |-> "NoneType has no close"]]

\* A close that leaves the handle as it is.
close_Noop(s) == [io |-> s, exc |-> [kind |-> "none"]]

\* SerialIO.close: if self.ser and self.ser.is_open: close it and forget it.
close(s) ==
    IF s.ser = "open" THEN [io |-> [s EXCEPT !.ser = "none"], exc |-> [kind |-> "none"]]
    ELSE [io |-> s, exc |-> [kind |-> "none"]]

\* SerialIO.open on the port p: a new serial.Serial handle unless one is open.
open(s, p) ==
    IF s.ser = "open" THEN [io |-> s, exc |-> [kind |-> "none"], opened |-> FALSE]
    ELSE IF OpenPort(p).kind # "ok" THEN [io |-> s, exc |-> OpenPort(p), opened |-> FALSE]
    ELSE [io |-> [s EXCEPT !.ser = "open"], exc |-> [kind |-> "none"], opened |-> TRUE]

\* raw.decode('ascii', errors='ignore'): bytes outside ASCII are dropped.
RECURSIVE DecodeAscii(_)
DecodeAscii(raw) ==
    IF Len(raw) = 0 THEN <<>>
    ELSE (IF raw[1] \in NonAscii THEN <<>> ELSE <<raw[1]>>) \o DecodeAscii(Tail(raw))

\* str.strip(): leading and trailing whitespace removed.
RECURSIVE Strip(_)
Strip(t) ==
    IF Len(t) = 0 THEN t
    ELSE IF t[1] \in Whitespace THEN Strip(Tail(t))
    ELSE IF t[Len(t)] \in Whitespace THEN Strip(SubSeq(t, 1, Len(t) - 1))
    ELSE t

\* ---------------------------------------------------- device.py: execution
\* Device._execute_command on the bound, open transport: encode, send, read
\* the reply line, decode.  Each outcome is the decoded reply (or the error
\* raised) and the controller's state afterwards.
_execute_command(command_name, kwargs) ==
    LET g == generate_command(variant, command_name, kwargs)
    IN  IF g.kind # "ok"
        THEN {[reply |-> g, tbl |-> devTbl, busy |-> devBusy]}
        ELSE {[reply |-> parse_response(variant, o.raw, command_name),
               tbl |-> o.tbl, busy |-> o.busy] : o \in DevHandle(g.frame, devTbl, devBusy)}

\* ------------------------------------------------- motion.py: the controller
\* vel_no or self._dev.target_vel_no: None and 0 are both falsy.
TableNo(vel_no, target) ==
    IF vel_no = None THEN target
    ELSE IF vel_no.val = 0 THEN target
    ELSE vel_no.val

\* A scaling that leaves the time as it was read.
ScaledTime_Unscaled(t, max_pulse, orig_max) == t

\* int(float(t) * scale) with scale = max_pulse / orig_max if orig_max else 1.0
ScaledTime(t, max_pulse, orig_max) ==
    IF orig_max = 0 THEN t
    ELSE IF orig_max > 0 THEN TruncDiv(t * max_pulse, orig_max)
    ELSE TruncDiv(-(t * max_pulse), -orig_max)

\* _temp_set_velocity: the arguments of the override write, from the entry read.
OverrideArgs(m, ax, vel_no, max_pulse) ==
    LET orig_max == IF "max_vel" \in DOMAIN m THEN IntVal(m["max_vel"]) ELSE max_pulse
        acc == IF "acc_time" \in DOMAIN m THEN IntVal(m["acc_time"]) ELSE 1
        base == [ax_num |-> ax,
                 vel_no |-> vel_no,
                 start_vel |-> (max_pulse * 4) \div 5,
                 max_vel |-> max_pulse,
                 acc_time |-> Max(1, ScaledTime(acc, max_pulse, orig_max)),
                 acc_type |-> IF "acc_type" \in DOMAIN m THEN IntVal(m["acc_type"]) ELSE 1]
    IN  IF "dec_time" \in DOMAIN m
        THEN base @@ ("dec_time" :>
                         Max(1, ScaledTime(IntVal(m["dec_time"]), max_pulse, orig_max)))
        ELSE base

\* _restore_vel_tbl: {arg: int(orig[arg]) for arg in args_list if arg in orig}
RestoreArgs(m) ==
    LET args_list == cmd_map(variant)["write_vel_tbl"].args
    IN  [a \in Range(args_list) \cap DOMAIN m |-> IntVal(m[a])]

\* The keyword arguments of the motion command.
MotionArgs(c, tno, p) ==
    IF c.name = "home"
    THEN [ax_num |-> c.axis, vel_no |-> tno, pat |-> 1]
    ELSE [ax_num |-> c.axis, vel_no |-> tno, length |-> p, pat |-> 1]

\* wait_time = x / velocity + buffer, then time.sleep(wait_time); buffer = 0.2.
\* Division by zero raises; so does sleeping for a negative time.
WaitOutcome(c) ==
    IF c.name = "home" THEN NoExc
    ELSE IF c.velocity = 0
         THEN [kind |-> "ZeroDivisionError", msg |-> "float division by zero"]
    ELSE IF (c.velocity > 0 /\ 5 * c.x + c.velocity < 0)
            \/ (c.velocity < 0 /\ 5 * c.x + c.velocity > 0)
         THEN [kind |-> "ValueError", msg |-> "sleep length must be non-negative"]
    ELSE NoExc

\* A faulty idle test: any decoded reply counts as idle.
IsIdle_AnyReply(sta) == TRUE

\* A faulty idle test: the sentinel compared the wrong way round.
IsIdle_Inverted(sta) == "status" \in DOMAIN sta /\ sta["status"] # <<"0">>

\* ensure_idle's test of a decoded read_status reply: sta.get('status') == '0'
IsIdle(sta) == "status" \in DOMAIN sta /\ sta["status"] = <<"0">>

\* The velocity of the call in pulses, as _temp_set_velocity converts it.
MaxPulse(c) == velocity_unit_to_pulse(c.velocity, get_axis_conf(cfg, c.axis).val)

\* if orig and self._dev.restore_vel_table
RestoreDue(o, restore) == o # None /\ restore

LogEntry(name, kwargs, reply) == [name |-> name, kwargs |-> kwargs, reply |-> reply]

\* What a motion call leaves alone: the session's settings, the controller's
\* layout, and the transport the session is bound to.
sessionVars == <<cfg, variant, target_vel_no, restore_vel_table, devLayout, devShortRtb,
                 wire, connectVars, codecVars>>

MotionInit ==
    /\ cfg \in Configs
    /\ variant \in {"default", "aries"}
    /\ target_vel_no \in Slots
    /\ restore_vel_table \in BOOLEAN
    /\ devLayout \in {"default", "aries"}
    /\ devShortRtb \in BOOLEAN
    /\ devLayout = "default" => devShortRtb
    /\ devBusy \in BOOLEAN
    /\ devTbl \in InitTables
    /\ wire = Quiet
    /\ pc = "ready"
    /\ call = None
    /\ table_no = 0
    /\ pulse = 0
    /\ orig = None
    /\ resp = None
    /\ exc = NoExc
    /\ polls = 0
    /\ sent = <<>>
    \* the session is bound to the one port, which connect left open
    /\ ports = <<[fault |-> "none", line |-> IdentifyLine(cfg.device)]>>
    /\ isOpen = <<TRUE>>
    /\ cstate = "bound"
    /\ cargs = None
    /\ idx = 1
    /\ serial_io = Some([SerialIO(1, cfg.serial.baudrate) EXCEPT !.ser = "open"])
    /\ trace = <<>>
    /\ connErr = NoExc
    /\ closes = 0
    /\ ops = 0
    /\ cin = None
    /\ cout = None

\* move_relative / move_absolute / home is called.
Call(name, x, velocity, vel_no) ==
    /\ pc = "ready"
    /\ call' = [name |-> name, axis |-> cfg.axes[1].ax_num, x |-> x,
                velocity |-> velocity, vel_no |-> vel_no]
    /\ pc' = "ensure1"
    /\ UNCHANGED <<sessionVars, devBusy, devTbl, table_no, pulse, orig, resp, exc,
                   polls, sent>>

\* One round of ensure_idle's loop: read_status, then leave the loop or poll again.
EnsureIdle ==
    /\ pc \in {"ensure1", "ensure2"}
    /\ \E o \in _execute_command("read_status", [ax_num |-> call.axis]) :
        LET entry == LogEntry("read_status", [ax_num |-> call.axis], o.reply)
        IN  /\ sent' = IF polls < MaxPolls THEN Append(sent, entry)
                       ELSE [sent EXCEPT ![Len(sent)] = entry]
            /\ polls' = IF polls < MaxPolls THEN polls + 1 ELSE polls
            /\ devTbl' = o.tbl
            /\ devBusy' = o.busy
            /\ IF o.reply.kind # "ok"
               THEN pc' = "raised" /\ exc' = o.reply
               ELSE /\ exc' = exc
                    /\ pc' = IF ~IsIdle(o.reply.map) THEN pc
                             ELSE IF pc = "ensure1" THEN "convert"
                             ELSE IF RestoreDue(orig, restore_vel_table) THEN "restore"
                             ELSE "finish"
    /\ UNCHANGED <<sessionVars, call, table_no, pulse, orig, resp>>

\* After the first idle wait: get_axis_conf, the unit conversion, table_no, and
\* (when a slot applies) the velocity conversion that opens _temp_set_velocity.
Convert ==
    /\ pc = "convert"
    /\ LET a == get_axis_conf(cfg, call.axis)
           conv == IF call.name = "home"
                   THEN velocity_unit_to_pulse(call.velocity, a.val)
                   ELSE length_unit_to_pulse(call.x, a.val)
           tno == TableNo(call.vel_no, target_vel_no)
       IN  IF a.kind # "ok"
           THEN pc' = "raised" /\ exc' = a /\ UNCHANGED <<pulse, table_no>>
           ELSE IF conv.kind # "ok"
           THEN pc' = "raised" /\ exc' = conv /\ UNCHANGED <<pulse, table_no>>
           ELSE /\ pulse' = conv.val
                /\ table_no' = tno
                /\ IF tno = 0 THEN pc' = "motion" /\ exc' = exc
                   ELSE IF MaxPulse(call).kind # "ok"
                   THEN pc' = "raised" /\ exc' = MaxPulse(call)
                   ELSE pc' = "read_tbl" /\ exc' = exc
    /\ UNCHANGED <<sessionVars, devBusy, devTbl, call, orig, resp, polls, sent>>

\* _temp_set_velocity: read the slot's entry.
TempRead ==
    /\ pc = "read_tbl"
    /\ LET kwargs == [ax_num |-> call.axis, vel_no |-> table_no]
       IN  \E o \in _execute_command("read_vel_tbl", kwargs) :
            /\ sent' = Append(sent, LogEntry("read_vel_tbl", kwargs, o.reply))
            /\ devTbl' = o.tbl
            /\ devBusy' = o.busy
            /\ IF o.reply.kind # "ok"
               THEN pc' = "raised" /\ exc' = o.reply /\ orig' = orig
               ELSE pc' = "write_tbl" /\ exc' = exc
                    /\ orig' = Some([map |-> o.reply.map, variant |-> variant])
    /\ UNCHANGED <<sessionVars, call, table_no, pulse, resp, polls>>

\* _temp_set_velocity: write the override.
TempWrite ==
    /\ pc = "write_tbl"
    /\ LET m == orig.val.map
       IN  IF \E f \in {"max_vel", "acc_time", "acc_type", "dec_time"} \cap DOMAIN m :
                  ~IntOk(m[f])
           THEN /\ pc' = "raised"
                /\ exc' = [kind |-> "ValueError", msg |-> "invalid literal for int()"]
                /\ UNCHANGED <<devTbl, devBusy, sent>>
           ELSE LET kwargs == OverrideArgs(m, call.axis, table_no, MaxPulse(call).val)
                IN  \E o \in _execute_command("write_vel_tbl", kwargs) :
                     /\ sent' = Append(sent, LogEntry("write_vel_tbl", kwargs, o.reply))
                     /\ devTbl' = o.tbl
                     /\ devBusy' = o.busy
                     /\ IF o.reply.kind # "ok"
                        THEN pc' = "raised" /\ exc' = o.reply
                        ELSE pc' = "motion" /\ exc' = exc
    /\ UNCHANGED <<sessionVars, call, table_no, pulse, orig, resp, polls>>

\* The motion command, then the sleep for the estimated time.
Motion ==
    /\ pc = "motion"
    /\ LET kwargs == MotionArgs(call, table_no, pulse)
       IN  \E o \in _execute_command(call.name, kwargs) :
            /\ sent' = Append(sent, LogEntry(call.name, kwargs, o.reply))
            /\ devTbl' = o.tbl
            /\ devBusy' = o.busy
            /\ IF o.reply.kind # "ok"
               THEN pc' = "raised" /\ exc' = o.reply /\ resp' = resp
               ELSE /\ resp' = Some(o.reply.map)
                    /\ IF WaitOutcome(call).kind # "none"
                       THEN pc' = "raised" /\ exc' = WaitOutcome(call)
                       ELSE pc' = "ensure2" /\ exc' = exc
    /\ polls' = 0
    /\ UNCHANGED <<sessionVars, call, table_no, pulse, orig>>

\* _restore_vel_tbl: write the captured entry back.
Restore ==
    /\ pc = "restore"
    /\ LET m == orig.val.map
       IN  IF \E a \in Range(cmd_map(variant)["write_vel_tbl"].args) \cap DOMAIN m :
                  ~IntOk(m[a])
           THEN /\ pc' = "raised"
                /\ exc' = [kind |-> "ValueError", msg |-> "invalid literal for int()"]
                /\ UNCHANGED <<devTbl, devBusy, sent>>
           ELSE LET kwargs == RestoreArgs(m)
                IN  \E o \in _execute_command("write_vel_tbl", kwargs) :
                     /\ sent' = Append(sent, LogEntry("write_vel_tbl", kwargs, o.reply))
                     /\ devTbl' = o.tbl
                     /\ devBusy' = o.busy
                     /\ IF o.reply.kind # "ok"
                        THEN pc' = "raised" /\ exc' = o.reply
                        ELSE pc' = "finish" /\ exc' = exc
    /\ UNCHANGED <<sessionVars, call, table_no, pulse, orig, resp, polls>>

\* The result mapping: move_relative and move_absolute convert the velocity here.
Finish ==
    /\ pc = "finish"
    /\ IF call.name # "home" /\ MaxPulse(call).kind # "ok"
       THEN pc' = "raised" /\ exc' = MaxPulse(call)
       ELSE pc' = "returned" /\ exc' = exc
    /\ UNCHANGED <<sessionVars, devBusy, devTbl, call, table_no, pulse, orig, resp,
                   polls, sent>>

\* The axis comes to rest.  Only read_status observes devBusy, so the moment is
\* taken while the call is in an idle wait.
MotionCompletes ==
    /\ devBusy
    /\ pc \in {"ensure1", "ensure2"}
    /\ devBusy' = FALSE
    /\ UNCHANGED <<sessionVars, devTbl, pc, call, table_no, pulse, orig, resp, exc,
                   polls, sent>>

VelNos == {None} \cup {Some(s) : s \in Slots}

MotionNext ==
    \/ \E name \in {"move_relative", "move_absolute"}, x \in Lengths,
          velocity \in Velocities, vel_no \in VelNos : Call(name, x, velocity, vel_no)
    \/ \E velocity \in Velocities, vel_no \in VelNos : Call("home", 0, velocity, vel_no)
    \/ EnsureIdle
    \/ Convert
    \/ TempRead
    \/ TempWrite
    \/ Motion
    \/ Restore
    \/ Finish
    \/ MotionCompletes

\* ------------------------------------------------ device.py: Device.connect
Parities == {"E"}

Bauds == {38400}

\* A faulty identity test: any decoded reply is accepted.
NameMatches_Any(parsed, config) == TRUE

\* parsed.get("dev_name") == config.device
NameMatches(parsed, config) ==
    "dev_name" \in DOMAIN parsed /\ parsed["dev_name"] = config.device

\* One identify exchange on the SerialIO s over port p: generate_command,
\* send_and_receive, decode and strip, parse_response.  The decoded reply, or
\* the exception raised on the way.
Identify(s, p) ==
    LET g == generate_command(variant, "identify", NoArgs)
    IN  IF g.kind # "ok" THEN g
        ELSE LET r == send_and_receive(s, p)
             IN  IF r.kind # "ok" THEN r
                 ELSE parse_response(variant, Strip(DecodeAscii(r.raw)), "identify")

Event(ev, port, ok) == [ev |-> ev, port |-> port, ok |-> ok]

OpenEvent(port, baudrate, parity, ok) ==
    [ev |-> "open", port |-> port, ok |-> ok, baudrate |-> baudrate, parity |-> parity]

ConnectInit ==
    /\ cfg \in Configs
    /\ variant \in {"default", "aries"}
    \* connect's defaults: default_vel_no = 0, target_vel_no = None, restore on
    /\ target_vel_no = 0
    /\ restore_vel_table = TRUE
    /\ devLayout = "aries"
    /\ devShortRtb = FALSE
    /\ devBusy = FALSE
    /\ devTbl = [s \in Slots |-> InitEntries[1]]
    /\ wire = Quiet
    /\ pc = "ready"
    /\ call = None
    /\ table_no = 0
    /\ pulse = 0
    /\ orig = None
    /\ resp = None
    /\ exc = NoExc
    /\ polls = 0
    /\ sent = <<>>
    /\ ports \in UNION {[1..n -> PortKinds] : n \in 0..MaxPorts}
    /\ isOpen = [i \in 1..Len(ports) |-> FALSE]
    /\ cstate = "new"
    /\ cargs = None
    /\ idx = 0
    /\ serial_io = None
    /\ trace = <<>>
    /\ connErr = NoExc
    /\ closes = 0
    /\ ops = 0
    /\ cin = None
    /\ cout = None

\* Device.connect(port=..., baudrate=..., parity=...) is called: the override
\* path is taken when a port and a baud rate are both given, the scan otherwise.
Connect(port, baudrate, parity) ==
    /\ cstate = "new"
    /\ cargs' = Some([port |-> port, baudrate |-> baudrate, parity |-> parity])
    /\ IF port # None /\ baudrate # None
       THEN cstate' = "override_open" /\ idx' = port.val
       ELSE cstate' = "scan_open" /\ idx' = 1
    /\ UNCHANGED <<motionVars, codecVars, ports, isOpen, serial_io, trace, connErr, closes, ops>>

\* Override path: SerialIO(port, baudrate, timeout) and serial.Serial(...).
\* An exception is logged and raised again.
OverrideOpen ==
    /\ cstate = "override_open"
    /\ LET a == cargs.val
           used_parity == IF a.parity # None THEN a.parity.val ELSE cfg.serial.parity
           o == OpenPort(ports[idx])
       IN  /\ trace' = Append(trace, OpenEvent(idx, a.baudrate.val, used_parity,
                                                o.kind = "ok"))
           /\ IF o.kind = "ok"
              THEN /\ serial_io' = Some([SerialIO(idx, a.baudrate.val) EXCEPT !.ser = "open"])
                   /\ isOpen' = [isOpen EXCEPT ![idx] = TRUE]
                   /\ cstate' = "override_probe"
                   /\ connErr' = connErr
              ELSE /\ serial_io' = Some(SerialIO(idx, a.baudrate.val))
                   /\ isOpen' = isOpen
                   /\ cstate' = "raised"
                   /\ connErr' = o
    /\ UNCHANGED <<motionVars, codecVars, ports, cargs, idx, closes, ops>>

\* Override path: the identify exchange and the identity test.  A mismatch
\* closes the transport and raises; any exception is logged and raised again,
\* the transport left as it is.
OverrideProbe ==
    /\ cstate = "override_probe"
    /\ LET parsed == Identify(serial_io.val, ports[idx])
       IN  IF parsed.kind # "ok"
           THEN /\ trace' = Append(trace, Event("identify", idx, FALSE))
                /\ cstate' = "raised"
                /\ connErr' = parsed
                /\ UNCHANGED <<serial_io, isOpen>>
           ELSE IF NameMatches(parsed.map, cfg)
           THEN /\ trace' = Append(trace, Event("identify", idx, TRUE))
                /\ cstate' = "bound"
                /\ UNCHANGED <<serial_io, isOpen, connErr>>
           ELSE /\ trace' = trace \o <<Event("identify", idx, TRUE), Event("close", idx, TRUE)>>
                /\ serial_io' = Some(close(serial_io.val).io)
                /\ isOpen' = [isOpen EXCEPT ![idx] = FALSE]
                /\ cstate' = "raised"
                /\ connErr' = [kind |-> "RuntimeError", msg |-> "override port did not match",
                               port |-> idx]
    /\ UNCHANGED <<motionVars, codecVars, ports, cargs, idx, closes, ops>>

\* Scan path, one port of list_ports.comports(): SerialIO(port, config baud,
\* timeout) and serial.Serial(...).  An exception is logged, the SerialIO
\* closed (it holds no handle), and the loop continues.
ScanOpen ==
    /\ cstate = "scan_open"
    /\ idx <= Len(ports)
    /\ LET o == OpenPort(ports[idx])
       IN  /\ trace' = Append(trace, OpenEvent(idx, cfg.serial.baudrate, cfg.serial.parity,
                                                o.kind = "ok"))
           /\ IF o.kind = "ok"
              THEN /\ serial_io' = Some([SerialIO(idx, cfg.serial.baudrate)
                                            EXCEPT !.ser = "open"])
                   /\ isOpen' = [isOpen EXCEPT ![idx] = TRUE]
                   /\ cstate' = "scan_probe"
                   /\ idx' = idx
              ELSE /\ serial_io' = Some(close(SerialIO(idx, cfg.serial.baudrate)).io)
                   /\ isOpen' = isOpen
                   /\ cstate' = "scan_open"
                   /\ idx' = idx + 1
    /\ UNCHANGED <<motionVars, codecVars, ports, cargs, connErr, closes, ops>>

\* Scan path: the identify exchange and the identity test.  A match binds; a
\* mismatch or an exception closes the transport and the loop continues.
ScanProbe ==
    /\ cstate = "scan_probe"
    /\ LET parsed == Identify(serial_io.val, ports[idx])
       IN  IF parsed.kind = "ok" /\ NameMatches(parsed.map, cfg)
           THEN /\ trace' = Append(trace, Event("identify", idx, TRUE))
                /\ cstate' = "bound"
                /\ UNCHANGED <<serial_io, isOpen, idx>>
           ELSE /\ trace' = trace \o <<Event("identify", idx, parsed.kind = "ok"),
                                        Event("close", idx, TRUE)>>
                /\ serial_io' = Some(close(serial_io.val).io)
                /\ isOpen' = [isOpen EXCEPT ![idx] = FALSE]
                /\ cstate' = "scan_open"
                /\ idx' = idx + 1
    /\ UNCHANGED <<motionVars, codecVars, ports, cargs, connErr, closes, ops>>

\* Scan path: every port was tried; raise RuntimeError naming config.device.
ScanExhausted ==
    /\ cstate = "scan_open"
    /\ idx > Len(ports)
    /\ cstate' = "raised"
    /\ connErr' = [kind |-> "RuntimeError", msg |-> "could not connect to device",
                   device |-> cfg.device]
    /\ UNCHANGED <<motionVars, codecVars, ports, isOpen, cargs, idx, serial_io, trace, closes, ops>>

\* Device.disconnect: self._serial.close().
Disconnect ==
    /\ cstate = "bound"
    /\ closes < MaxDisconnects
    /\ closes' = closes + 1
    /\ LET c == close(serial_io.val)
       IN  /\ serial_io' = Some(c.io)
           /\ connErr' = c.exc
           /\ isOpen' = IF serial_io.val.ser = "open"
                        THEN [isOpen EXCEPT ![serial_io.val.port] = FALSE]
                        ELSE isOpen
    /\ UNCHANGED <<motionVars, codecVars, ports, cstate, cargs, idx, trace, ops>>

\* Device.get_information: _execute_command("identify") on the bound session:
\* self._serial.open(), generate_command, send_and_receive, decode, parse_response.
GetInformation ==
    /\ cstate = "bound"
    /\ ops < MaxOps
    /\ ops' = ops + 1
    /\ LET s == serial_io.val
           p == ports[s.port]
           o == open(s, p)
       IN  /\ serial_io' = Some(o.io)
           /\ IF o.exc.kind # "none"
              THEN /\ trace' = Append(trace, Event("reopen", s.port, FALSE))
                   /\ isOpen' = isOpen
                   /\ connErr' = o.exc
              ELSE LET r == Identify(o.io, p)
                   IN  /\ trace' = trace
                                   \o (IF o.opened THEN <<Event("reopen", s.port, TRUE)>>
                                       ELSE <<>>)
                                   \o <<Event("execute", s.port, r.kind = "ok")>>
                       /\ isOpen' = [isOpen EXCEPT ![s.port] = TRUE]
                       /\ connErr' = IF r.kind = "ok" THEN NoExc ELSE r
    /\ UNCHANGED <<motionVars, codecVars, ports, cstate, cargs, idx, closes>>

ConnectNext ==
    \/ \E port \in {None} \cup {Some(i) : i \in 1..Len(ports)},
          baudrate \in {None} \cup {Some(b) : b \in Bauds},
          parity \in {None} \cup {Some(q) : q \in Parities} :
            Connect(port, baudrate, parity)
    \/ OverrideOpen
    \/ OverrideProbe
    \/ ScanOpen
    \/ ScanProbe
    \/ ScanExhausted
    \/ Disconnect
    \/ GetInformation

\* ------------------------------------- _serial.py: a SerialIO used on its own
\* The motion controller at rest, for the specifications that do not use it.
MotionUnused ==
    /\ target_vel_no = 0
    /\ restore_vel_table = TRUE
    /\ devLayout = "aries"
    /\ devShortRtb = FALSE
    /\ devBusy = FALSE
    /\ devTbl = [s \in Slots |-> InitEntries[1]]
    /\ wire = Quiet
    /\ pc = "ready"
    /\ call = None
    /\ table_no = 0
    /\ pulse = 0
    /\ orig = None
    /\ resp = None
    /\ exc = NoExc
    /\ polls = 0
    /\ sent = <<>>

\* io = SerialIO(port, baudrate): nothing is opened yet.
SerialInit ==
    /\ cfg \in Configs
    /\ variant = "aries"
    /\ MotionUnused
    /\ ports \in [1..1 -> PortKinds]
    /\ isOpen = <<FALSE>>
    /\ cstate = "serial"
    /\ cargs = None
    /\ idx = 1
    /\ serial_io = Some(SerialIO(1, cfg.serial.baudrate))
    /\ trace = <<>>
    /\ connErr = NoExc
    /\ closes = 0
    /\ ops = 0
    /\ cin = None
    /\ cout = None

\* io.open()
SioOpen ==
    /\ cstate = "serial"
    /\ ops < MaxOps
    /\ ops' = ops + 1
    /\ LET o == open(serial_io.val, ports[1])
       IN  /\ serial_io' = Some(o.io)
           /\ connErr' = o.exc
           /\ isOpen' = <<o.io.ser = "open">>
           /\ trace' = IF serial_io.val.ser = "open" THEN trace
                       ELSE Append(trace, Event("open", 1, o.opened))
    /\ UNCHANGED <<motionVars, codecVars, ports, cstate, cargs, idx, closes>>

\* io.send(data): the not-open error comes before any write.
SioSend ==
    /\ cstate = "serial"
    /\ ops < MaxOps
    /\ ops' = ops + 1
    /\ LET r == send(serial_io.val, ports[1])
       IN  /\ connErr' = IF r.kind = "ok" THEN NoExc ELSE r
           /\ trace' = IF r.kind \in {"ok", "SerialException"}
                       THEN Append(trace, Event("write", 1, r.kind = "ok"))
                       ELSE trace
    /\ UNCHANGED <<motionVars, codecVars, ports, isOpen, cstate, cargs, idx, serial_io,
                   closes>>

\* io.receive(): the not-open error comes before any read.
SioReceive ==
    /\ cstate = "serial"
    /\ ops < MaxOps
    /\ ops' = ops + 1
    /\ LET r == receive(serial_io.val, ports[1])
       IN  /\ connErr' = IF r.kind = "ok" THEN NoExc ELSE r
           /\ trace' = IF r.kind \in {"ok", "SerialException"}
                       THEN Append(trace, Event("read", 1, r.kind = "ok"))
                       ELSE trace
    /\ UNCHANGED <<motionVars, codecVars, ports, isOpen, cstate, cargs, idx, serial_io,
                   closes>>

\* io.close()
SioClose ==
    /\ cstate = "serial"
    /\ ops < MaxOps
    /\ ops' = ops + 1
    /\ LET c == close(serial_io.val)
       IN  /\ serial_io' = Some(c.io)
           /\ connErr' = c.exc
           /\ isOpen' = <<FALSE>>
           /\ trace' = IF serial_io.val.ser = "open"
                       THEN Append(trace, Event("close", 1, TRUE))
                       ELSE trace
    /\ UNCHANGED <<motionVars, codecVars, ports, cstate, cargs, idx, closes>>

SerialNext ==
    \/ SioOpen
    \/ SioSend
    \/ SioReceive
    \/ SioClose

\* ------------------------------------------ _command.py: one call of the codec
CommandNames == (DOMAIN aries_command_map) \cup {"bogus"}

ArgVals == {-1, 12} \cup (0..MaxArg)

\* The keyword names a caller may supply: those either table declares for the
\* command, and one that no table declares.
ArgNames(name) ==
    (IF name \in DOMAIN aries_command_map THEN Range(aries_command_map[name].args) ELSE {})
    \cup (IF name \in DOMAIN default_map THEN Range(default_map[name].args) ELSE {})
    \cup {"extra"}

KwargsOf(name) ==
    UNION {[S -> ArgVals] : S \in {T \in SUBSET ArgNames(name) : Cardinality(T) <= MaxKeys}}

\* The replies given to parse_response: a prefix, then possibly an echo token
\* (the code, the code with digits or a letter fused to it, or another word),
\* then n value tokens "1", "2", ..., separated by blanks or tabs.
Prefixes == {"C", "E", "X"}

EchoKinds == {"none", "code", "fused", "alpha", "other"}

EchoToken(kind, code) ==
    CASE kind = "code" -> <<code>>
      [] kind = "fused" -> <<code \o <<"1", "2">>>>
      [] kind = "alpha" -> <<code \o <<"x">>>>
      [] kind = "other" -> <<<<"Z", "Z">>>>
      [] OTHER -> <<>>

ValueTokens(n) == [i \in 1..n |-> Str(i)]

RECURSIVE JoinTokens(_, _)
JoinTokens(tokens, sep) ==
    IF Len(tokens) = 0 THEN <<>>
    ELSE IF Len(tokens) = 1 THEN tokens[1]
    ELSE tokens[1] \o <<sep>> \o JoinTokens(Tail(tokens), sep)

\* The code a controller echoes for the command ("ZZZ" for an unknown name).
CodeOf(name) ==
    IF name \in DOMAIN aries_command_map THEN aries_command_map[name].code
    ELSE <<"Z", "Z", "Z">>

ReplyText(name, prefix, echo, n, sep) ==
    JoinTokens(<<<<prefix>>>> \o EchoToken(echo, CodeOf(name)) \o ValueTokens(n), sep)
    \o <<"CR", "LF">>

\* proc = CommandProcessor(variant): no call made yet.
CodecInit ==
    /\ cfg \in Configs
    /\ variant \in {"default", "aries"}
    /\ MotionUnused
    /\ ports = <<>>
    /\ isOpen = <<>>
    /\ cstate = "codec"
    /\ cargs = None
    /\ idx = 0
    /\ serial_io = None
    /\ trace = <<>>
    /\ connErr = NoExc
    /\ closes = 0
    /\ ops = 0
    /\ cin = None
    /\ cout = None

\* proc.generate_command(name, **kwargs)
Encode(name, kwargs) ==
    /\ cstate = "codec"
    /\ cin = None
    /\ cin' = Some([op |-> "encode", name |-> name, kwargs |-> kwargs])
    /\ cout' = Some(generate_command(variant, name, kwargs))
    /\ UNCHANGED <<motionVars, connectVars>>

\* proc.parse_response(text, name) on a reply built from tokens
Decode(name, prefix, echo, n, sep) ==
    /\ cstate = "codec"
    /\ cin = None
    /\ cin' = Some([op |-> "decode", name |-> name, prefix |-> prefix, echo |-> echo,
                    n |-> n, sep |-> sep,
                    text |-> ReplyText(name, prefix, echo, n, sep)])
    /\ cout' = Some(parse_response(variant, ReplyText(name, prefix, echo, n, sep), name))
    /\ UNCHANGED <<motionVars, connectVars>>

\* proc.parse_response(text, name) on a reply without any token
DecodeEmpty(name, text) ==
    /\ cstate = "codec"
    /\ cin = None
    /\ cin' = Some([op |-> "decode_empty", name |-> name, text |-> text])
    /\ cout' = Some(parse_response(variant, text, name))
    /\ UNCHANGED <<motionVars, connectVars>>

\* The controller's verbatim echo of a frame: the prefix C, a blank, and the
\* body of the frame (the code and the "/"-separated values), then CR LF.
EchoOf(frame) == <<"C", " ">> \o SubSeq(frame, 2, Len(frame) - 2) \o <<"CR", "LF">>

\* proc.parse_response(echo of proc.generate_command(name, **kwargs), name)
EchoRoundTrip(name, kwargs) ==
    /\ cstate = "codec"
    /\ cin = None
    /\ LET g == generate_command(variant, name, kwargs)
       IN  /\ cin' = Some([op |-> "roundtrip", name |-> name, kwargs |-> kwargs,
                           text |-> IF g.kind = "ok" THEN EchoOf(g.frame) ELSE <<>>])
           /\ cout' = Some(IF g.kind # "ok" THEN g
                           ELSE parse_response(variant, EchoOf(g.frame), name))
    /\ UNCHANGED <<motionVars, connectVars>>

\* Replies that name a field before its value: "C ax_num 1", "E error_num 123".
LabelTexts == {<<"a", "x", "_", "n", "u", "m">>,
               <<"e", "r", "r", "o", "r", "_", "n", "u", "m">>}

LabelledText(prefix, label, value) == <<prefix, " ">> \o label \o <<" ">> \o value

\* proc.parse_response(text, name) on a reply that names its field
DecodeLabelled(name, prefix, label, value) ==
    /\ cstate = "codec"
    /\ cin = None
    /\ cin' = Some([op |-> "decode_labelled", name |-> name, prefix |-> prefix,
                    text |-> LabelledText(prefix, label, value)])
    /\ cout' = Some(parse_response(variant, LabelledText(prefix, label, value), name))
    /\ UNCHANGED <<motionVars, connectVars>>

CodecNext ==
    \/ /\ cin = None
       /\ \E name \in CommandNames : \E kwargs \in KwargsOf(name) : Encode(name, kwargs)
    \/ /\ cin = None
       /\ \E name \in CommandNames, prefix \in Prefixes, echo \in EchoKinds,
             n \in 0..MaxTokens, sep \in {" ", "TAB"} : Decode(name, prefix, echo, n, sep)
    \/ /\ cin = None
       /\ \E name \in CommandNames, text \in {<<>>, <<" ", "CR", "LF">>} :
             DecodeEmpty(name, text)
    \/ /\ cin = None
       /\ \E name \in CommandNames : \E kwargs \in KwargsOf(name) :
             EchoRoundTrip(name, kwargs)
    \/ /\ cin = None
       /\ \E name \in CommandNames, prefix \in Prefixes, label \in LabelTexts,
             value \in {<<"1">>, <<"1", "2", "3">>} :
             DecodeLabelled(name, prefix, label, value)

\* -------------------------------------- motion.py: MotionController.write_vel_tbl
\* The axis of the loaded calibration.
Axis == cfg.axes[1]

\* A start velocity that is a fixed constant.
StartPulse_Fixed(max_p) == 1

\* start_p = int(max_p * 0.8), max_p a validated (non-negative) pulse count
StartPulse(max_p) == (max_p * 4) \div 5

\* Python's truth test of an Optional[int]: None and 0 are falsy.
Falsy(v) == v = None \/ v.val = 0

\* write_vel_tbl, from the entry read to the arguments of the write: the
\* scaling, then acc_time, dec_time and acc_type validated in this order.  The
\* keyword arguments, or the first error raised.
WriteVelTblArgs(m, c, max_p) ==
    LET args == Range(cmd_map(variant)["write_vel_tbl"].args)
        badInt == [kind |-> "ValueError", msg |-> "invalid literal for int()"]
        orig_max == IF "max_vel" \in DOMAIN m THEN IntVal(m["max_vel"]) ELSE max_p
        acc == validate_acc_time(
                   IF ~Falsy(c.acc_time) THEN c.acc_time.val
                   ELSE ScaledTime(IF "acc_time" \in DOMAIN m THEN IntVal(m["acc_time"])
                                   ELSE 1, max_p, orig_max),
                   Axis)
        dec == validate_dec_time(
                   IF ~Falsy(c.dec_time) THEN c.dec_time.val
                   ELSE ScaledTime(IF "dec_time" \in DOMAIN m THEN IntVal(m["dec_time"])
                                   ELSE acc.val, max_p, orig_max),
                   Axis)
        typ == validate_acc_type(IF c.acc_type # None THEN c.acc_type.val ELSE 1, variant)
        base == [ax_num |-> c.axis,
                 vel_no |-> c.vel_no,
                 start_vel |-> StartPulse(max_p),
                 max_vel |-> max_p,
                 acc_time |-> acc.val]
        withDec == IF "dec_time" \in args THEN base @@ ("dec_time" :> dec.val) ELSE base
        withTyp == IF "acc_type" \in args THEN withDec @@ ("acc_type" :> typ.val)
                   ELSE withDec
    IN  IF "max_vel" \in DOMAIN m /\ ~IntOk(m["max_vel"]) THEN badInt
        ELSE IF Falsy(c.acc_time) /\ "acc_time" \in DOMAIN m /\ ~IntOk(m["acc_time"])
        THEN badInt
        ELSE IF acc.kind # "ok" THEN acc
        ELSE IF /\ "dec_time" \in args /\ Falsy(c.dec_time)
                /\ "dec_time" \in DOMAIN m /\ ~IntOk(m["dec_time"])
        THEN badInt
        ELSE IF "dec_time" \in args /\ dec.kind # "ok" THEN dec
        ELSE IF "acc_type" \in args /\ typ.kind # "ok" THEN typ
        ELSE [kind |-> "ok", kwargs |-> withTyp]

\* The calibration of the session write_vel_tbl is called on.
TableConfigs ==
    {[device |-> <<"A">>,
      axes |-> <<[name |-> "x", ax_num |-> 1, units |-> "um", min_pulse |-> -1,
                  max_pulse |-> 1, max_speed_pulse |-> 20, pulse_per_unit |-> 1]>>,
      serial |-> [baudrate |-> 9600, parity |-> "N"]]}

TableInit ==
    /\ cfg \in TableConfigs
    /\ variant \in {"default", "aries"}
    /\ target_vel_no = 0
    /\ restore_vel_table = FALSE
    /\ devLayout \in {"default", "aries"}
    /\ devShortRtb \in BOOLEAN
    /\ devLayout = "default" => devShortRtb
    /\ devBusy = FALSE
    /\ devTbl \in InitTables
    /\ wire = Quiet
    /\ pc = "ready"
    /\ call = None
    /\ table_no = 0
    /\ pulse = 0
    /\ orig = None
    /\ resp = None
    /\ exc = NoExc
    /\ polls = 0
    /\ sent = <<>>
    /\ ports = <<[fault |-> "none", line |-> IdentifyLine(cfg.device)]>>
    /\ isOpen = <<TRUE>>
    /\ cstate = "bound"
    /\ cargs = None
    /\ idx = 1
    /\ serial_io = Some([SerialIO(1, cfg.serial.baudrate) EXCEPT !.ser = "open"])
    /\ trace = <<>>
    /\ connErr = NoExc
    /\ closes = 0
    /\ ops = 0
    /\ cin = None
    /\ cout = None

\* write_vel_tbl is called: get_axis_conf and the velocity conversion.
WriteVelTblCall(vel_no, max_velocity, acc_time, dec_time, acc_type) ==
    /\ pc = "ready"
    /\ call' = [name |-> "write_vel_tbl", axis |-> cfg.axes[1].ax_num, vel_no |-> vel_no,
                max_velocity |-> max_velocity, acc_time |-> acc_time,
                dec_time |-> dec_time, acc_type |-> acc_type]
    /\ LET a == get_axis_conf(cfg, cfg.axes[1].ax_num)
           max_p == velocity_unit_to_pulse(max_velocity, a.val)
       IN  IF a.kind # "ok" THEN pc' = "raised" /\ exc' = a /\ pulse' = pulse
           ELSE IF max_p.kind # "ok" THEN pc' = "raised" /\ exc' = max_p /\ pulse' = pulse
           ELSE pc' = "wvt_read" /\ exc' = exc /\ pulse' = max_p.val
    /\ table_no' = vel_no
    /\ UNCHANGED <<sessionVars, devBusy, devTbl, orig, resp, polls, sent>>

\* orig = self._exec_int('read_vel_tbl', ax_num=axis, vel_no=vel_no)
WriteVelTblRead ==
    /\ pc = "wvt_read"
    /\ LET kwargs == [ax_num |-> call.axis, vel_no |-> call.vel_no]
       IN  \E o \in _execute_command("read_vel_tbl", kwargs) :
            /\ sent' = Append(sent, LogEntry("read_vel_tbl", kwargs, o.reply))
            /\ devTbl' = o.tbl
            /\ devBusy' = o.busy
            /\ IF o.reply.kind # "ok"
               THEN pc' = "raised" /\ exc' = o.reply /\ orig' = orig
               ELSE pc' = "wvt_write" /\ exc' = exc
                    /\ orig' = Some([map |-> o.reply.map, variant |-> variant])
    /\ UNCHANGED <<sessionVars, call, table_no, pulse, resp, polls>>

\* The validations, then self._exec_int('write_vel_tbl', **write_args) and the
\* result mapping.
WriteVelTblWrite ==
    /\ pc = "wvt_write"
    /\ LET w == WriteVelTblArgs(orig.val.map, call, pulse)
       IN  IF w.kind # "ok"
           THEN pc' = "raised" /\ exc' = w /\ UNCHANGED <<devTbl, devBusy, sent, resp>>
           ELSE \E o \in _execute_command("write_vel_tbl", w.kwargs) :
                 /\ sent' = Append(sent, LogEntry("write_vel_tbl", w.kwargs, o.reply))
                 /\ devTbl' = o.tbl
                 /\ devBusy' = o.busy
                 /\ IF o.reply.kind # "ok"
                    THEN pc' = "raised" /\ exc' = o.reply /\ resp' = resp
                    ELSE IF pulse_to_velocity_unit(StartPulse(pulse), Axis).kind # "ok"
                    THEN /\ pc' = "raised"
                         /\ exc' = pulse_to_velocity_unit(StartPulse(pulse), Axis)
                         /\ resp' = resp
                    ELSE pc' = "returned" /\ exc' = exc /\ resp' = Some(o.reply.map)
    /\ UNCHANGED <<sessionVars, call, table_no, pulse, orig, polls>>

\* The optional integers write_vel_tbl is called with.
AccTimes == {None, Some(-1), Some(0), Some(4), Some(10001)}

DecTimes == {None, Some(0), Some(5), Some(10001)}

AccTypes == {None, Some(0), Some(2), Some(3)}

TableNext ==
    \/ /\ pc = "ready"
       /\ \E vel_no \in Slots, max_velocity \in {5, 20, 21}, acc_time \in AccTimes,
             dec_time \in DecTimes, acc_type \in AccTypes :
             WriteVelTblCall(vel_no, max_velocity, acc_time, dec_time, acc_type)
    \/ WriteVelTblRead
    \/ WriteVelTblWrite

\* --------------------------------------------- validate.py: unit conversions
\* The calibrations a conversion is called with (one axis).
Calibrations ==
    {[name |-> "x", ax_num |-> 1, units |-> "um", min_pulse |-> lo, max_pulse |-> hi,
      max_speed_pulse |-> sp, pulse_per_unit |-> ppu] :
        lo \in {-2, 0}, hi \in {2, 1000}, sp \in {3, 1000}, ppu \in {1, 2, 10}}

\* The lengths, velocities and pulse counts a conversion is called with.
Units == ((-MaxUnit)..MaxUnit) \cup {20, 200}

\* A conversion and the conversion back of what it returned.
ThereAndBack(fwd, back) == [fwd |-> fwd, back |-> back]

ConvertInit ==
    /\ cfg \in {[device |-> <<"A">>, axes |-> <<a>>,
                 serial |-> [baudrate |-> 9600, parity |-> "N"]] : a \in Calibrations}
    /\ variant = "default"
    /\ MotionUnused
    /\ ports = <<>>
    /\ isOpen = <<>>
    /\ cstate = "convert"
    /\ cargs = None
    /\ idx = 0
    /\ serial_io = None
    /\ trace = <<>>
    /\ connErr = NoExc
    /\ closes = 0
    /\ ops = 0
    /\ cin = None
    /\ cout = None

\* pulses = length_unit_to_pulse(length, axis); pulse_to_length_unit(pulses, axis)
LengthToPulse(length) ==
    /\ cstate = "convert"
    /\ cin = None
    /\ cin' = Some([op |-> "length_unit_to_pulse", x |-> length])
    /\ LET fwd == length_unit_to_pulse(length, Axis)
       IN  cout' = Some(ThereAndBack(fwd, IF fwd.kind # "ok" THEN fwd
                                          ELSE pulse_to_length_unit(fwd.val, Axis)))
    /\ UNCHANGED <<motionVars, connectVars>>

\* length = pulse_to_length_unit(pulse, axis); length_unit_to_pulse(length, axis)
PulseToLength(p) ==
    /\ cstate = "convert"
    /\ cin = None
    /\ cin' = Some([op |-> "pulse_to_length_unit", x |-> p])
    /\ LET fwd == pulse_to_length_unit(p, Axis)
       IN  cout' = Some(ThereAndBack(fwd, IF fwd.kind # "ok" THEN fwd
                                          ELSE length_unit_to_pulse(fwd.val, Axis)))
    /\ UNCHANGED <<motionVars, connectVars>>

\* pulses = velocity_unit_to_pulse(velocity, axis); pulse_to_velocity_unit(pulses, axis)
VelocityToPulse(velocity) ==
    /\ cstate = "convert"
    /\ cin = None
    /\ cin' = Some([op |-> "velocity_unit_to_pulse", x |-> velocity])
    /\ LET fwd == velocity_unit_to_pulse(velocity, Axis)
       IN  cout' = Some(ThereAndBack(fwd, IF fwd.kind # "ok" THEN fwd
                                          ELSE pulse_to_velocity_unit(fwd.val, Axis)))
    /\ UNCHANGED <<motionVars, connectVars>>

\* velocity = pulse_to_velocity_unit(pulse, axis); velocity_unit_to_pulse(velocity, axis)
PulseToVelocity(p) ==
    /\ cstate = "convert"
    /\ cin = None
    /\ cin' = Some([op |-> "pulse_to_velocity_unit", x |-> p])
    /\ LET fwd == pulse_to_velocity_unit(p, Axis)
       IN  cout' = Some(ThereAndBack(fwd, IF fwd.kind # "ok" THEN fwd
                                          ELSE velocity_unit_to_pulse(fwd.val, Axis)))
    /\ UNCHANGED <<motionVars, connectVars>>

ConvertNext ==
    \/ cin = None /\ \E length \in Units : LengthToPulse(length)
    \/ cin = None /\ \E p \in Units : PulseToLength(p)
    \/ cin = None /\ \E velocity \in Units : VelocityToPulse(velocity)
    \/ cin = None /\ \E p \in Units : PulseToVelocity(p)

\* ------------------------------ _type.py / config_loader.py: loading a config
\* AxisConfig: ax_num >= 0, start_velocity_pulse > 0, pulse_per_unit > 0.
AxisConfig(a) ==
    a.ax_num >= 0 /\ a.start_velocity_pulse > 0 /\ a.pulse_per_unit > 0

\* SerialConfig: baudrate > 0 and validate_parity.
SerialConfig(c) == c.baudrate > 0 /\ c.parity \in {"N", "E", "O"}

\* A model validator that accepts every axes_sum.
check_axes_length_Skipped(m) == TRUE

\* DeviceConfig.check_axes_length
check_axes_length(m) == m.axes_sum = Len(m.axes)

\* DeviceConfig(**data): the fields are validated, then the model validator
\* runs; the configuration, or ValidationError.
DeviceConfig(data) ==
    IF /\ data.axes_sum >= 0
       /\ \A i \in 1..Len(data.axes) : AxisConfig(data.axes[i])
       /\ SerialConfig(data.serial)
       /\ check_axes_length(data)
    THEN [kind |-> "ok", val |-> data]
    ELSE [kind |-> "ValidationError", msg |-> "validation error for DeviceConfig"]

\* load_device_config(path, default) on an existing file holding data.
load_device_config(data) == DeviceConfig(data)

\* The axes entries a configuration file may hold.
RawAxes ==
    {[name |-> "x", ax_num |-> n, units |-> "um", min_pulse |-> lo, max_pulse |-> 1,
      max_speed_pulse |-> 1, start_velocity_pulse |-> 1, pulse_per_unit |-> ppu] :
        n \in {1, 2}, lo \in {-1, 2}, ppu \in {0, 1}}

\* The contents a configuration file may have.
RawConfigs ==
    {[device |-> <<"A">>, axes_sum |-> n, axes |-> axes,
      serial |-> [baudrate |-> 9600, parity |-> q]] :
        n \in 0..MaxAxes,
        axes \in UNION {[1..k -> RawAxes] : k \in 0..MaxAxes},
        q \in {"N", "X"}}

\* Before Device.connect(path=...): the file at path holds the data in cin.
LoadInit ==
    /\ cin \in {Some(d) : d \in RawConfigs}
    /\ cfg = None
    /\ variant = "aries"
    /\ MotionUnused
    /\ ports \in {<<>>,
                  <<[fault |-> "open", line |-> <<>>]>>,
                  <<[fault |-> "none", line |-> IdentifyLine(<<"A">>)]>>,
                  <<[fault |-> "none", line |-> IdentifyLine(<<"B">>)]>>}
    /\ isOpen = [i \in 1..Len(ports) |-> FALSE]
    /\ cstate = "unloaded"
    /\ cargs = None
    /\ idx = 0
    /\ serial_io = None
    /\ trace = <<>>
    /\ connErr = NoExc
    /\ closes = 0
    /\ ops = 0
    /\ cout = None

\* Device.connect(path, port=..., baudrate=..., parity=...) from its first
\* line: load_device_config, whose failure leaves connect at once, then the
\* choice between the override path and the scan.
ConnectLoad(port, baudrate, parity) ==
    /\ cstate = "unloaded"
    /\ cargs' = Some([port |-> port, baudrate |-> baudrate, parity |-> parity])
    /\ LET config == load_device_config(cin.val)
       IN  IF config.kind # "ok"
           THEN cstate' = "raised" /\ connErr' = config /\ cfg' = cfg /\ idx' = idx
           ELSE /\ cfg' = config.val
                /\ connErr' = connErr
                /\ IF port # None /\ baudrate # None
                   THEN cstate' = "override_open" /\ idx' = port.val
                   ELSE cstate' = "scan_open" /\ idx' = 1
    /\ UNCHANGED <<variant, target_vel_no, restore_vel_table, devLayout, devShortRtb,
                   devBusy, devTbl, wire, pc, call, table_no, pulse, orig, resp, exc, polls,
                   sent, codecVars, ports, isOpen, serial_io, trace, closes, ops>>

LoadNext ==
    \/ /\ cstate = "unloaded"
       /\ \E port \in {None} \cup {Some(i) : i \in 1..Len(ports)},
             baudrate \in {None} \cup {Some(b) : b \in Bauds},
             parity \in {None} \cup {Some(q) : q \in Parities} :
               ConnectLoad(port, baudrate, parity)
    \/ OverrideOpen
    \/ OverrideProbe
    \/ ScanOpen
    \/ ScanProbe
    \/ ScanExhausted
    \/ Disconnect
    \/ GetInformation

\* ------------------- device.py / _serial.py: exchanges over a line with latency
\* One executed command in the log, with the number of the command and the
\* number of the command whose reply line was read for it (0: none was read).
ExchangeEntry(name, kwargs, reply, seq, answers) ==
    [name |-> name, kwargs |-> kwargs, reply |-> reply, seq |-> seq, answers |-> answers]

\* A transport call on the bound port: the command it belongs to and, for a
\* read, the command whose reply line it returned (0: an empty line).
WireEvent(ev, ok, seq, answers) ==
    [ev |-> ev, port |-> 1, ok |-> ok, seq |-> seq, answers |-> answers]

\* The commands executed on the session in this specification.
ExchangeCommands ==
    {[name |-> "read_status", kwargs |-> [ax_num |-> 1]]}
    \cup {[name |-> "read_vel_tbl", kwargs |-> [ax_num |-> 1, vel_no |-> n]] : n \in Slots}

\* A bound session on an open port; the controller answers when it is ready.
ExchangeInit ==
    /\ cfg \in Configs
    /\ variant = "aries"
    /\ target_vel_no = 0
    /\ restore_vel_table = TRUE
    /\ devLayout = "aries"
    /\ devShortRtb = FALSE
    /\ devBusy \in BOOLEAN
    /\ devTbl \in InitTables
    /\ wire = Quiet
    /\ pc = "ready"
    /\ call = None
    /\ table_no = 0
    /\ pulse = 0
    /\ orig = None
    /\ resp = None
    /\ exc = NoExc
    /\ polls = 0
    /\ sent = <<>>
    /\ ports \in {<<[fault |-> f, line |-> <<>>]>> : f \in {"none", "read", "write"}}
    /\ isOpen = <<TRUE>>
    /\ cstate = "exchange"
    /\ cargs = None
    /\ idx = 1
    /\ serial_io = Some([SerialIO(1, cfg.serial.baudrate) EXCEPT !.ser = "open"])
    /\ trace = <<>>
    /\ connErr = NoExc
    /\ closes = 0
    /\ ops = 0
    /\ cin = None
    /\ cout = None

\* Device._execute_command up to the write: self._serial.open(),
\* generate_command, and the send half of send_and_receive.
ExecuteSend(name, kwargs) ==
    /\ cstate = "exchange"
    /\ pc = "ready"
    /\ ops < MaxOps
    /\ ops' = ops + 1
    /\ call' = [name |-> name, kwargs |-> kwargs, seq |-> ops + 1]
    /\ LET o == open(serial_io.val, ports[1])
           g == generate_command(variant, name, kwargs)
           w == send(o.io, ports[1])
           failed == IF o.exc.kind # "none" THEN o.exc
                     ELSE IF g.kind # "ok" THEN g
                     ELSE IF w.kind # "ok" THEN w
                     ELSE NoExc
       IN  /\ serial_io' = Some(o.io)
           /\ exc' = failed
           /\ IF failed.kind # "none"
              THEN /\ pc' = "ready"
                   /\ sent' = Append(sent, ExchangeEntry(name, kwargs, failed, ops + 1, 0))
                   /\ trace' = IF failed = w
                               THEN Append(trace, WireEvent("write", FALSE, ops + 1, 0))
                               ELSE trace
                   /\ wire' = wire
              ELSE /\ pc' = "x_read"
                   /\ sent' = sent
                   /\ trace' = Append(trace, WireEvent("write", TRUE, ops + 1, 0))
                   /\ wire' = [wire EXCEPT !.pending =
                                   Append(@, [frame |-> g.frame, seq |-> ops + 1])]
    /\ UNCHANGED <<cfg, variant, target_vel_no, restore_vel_table, devLayout, devShortRtb,
                   devBusy, devTbl, table_no, pulse, orig, resp, polls, codecVars, ports,
                   isOpen, cstate, cargs, idx, connErr, closes>>

\* The rest of Device._execute_command: the receive half of send_and_receive
\* (readline returns the first line in the input buffer, or an empty line when
\* the timeout passes with nothing there), decode, strip, parse_response.
ExecuteReceive ==
    /\ cstate = "exchange"
    /\ pc = "x_read"
    /\ LET arrived == wire.inbuf # <<>>
           line == IF arrived THEN Head(wire.inbuf).raw ELSE <<>>
           answers == IF arrived THEN Head(wire.inbuf).seq ELSE 0
           r == receive(serial_io.val, [ports[1] EXCEPT !.line = line])
       IN  IF r.kind # "ok"
           THEN /\ exc' = r
                /\ sent' = Append(sent, ExchangeEntry(call.name, call.kwargs, r, call.seq, 0))
                /\ trace' = Append(trace, WireEvent("read", FALSE, call.seq, 0))
                /\ wire' = wire
           ELSE LET reply == parse_response(variant, Strip(DecodeAscii(r.raw)), call.name)
                IN  /\ exc' = IF reply.kind = "ok" THEN NoExc ELSE reply
                    /\ sent' = Append(sent, ExchangeEntry(call.name, call.kwargs, reply,
                                                          call.seq, answers))
                    /\ trace' = Append(trace, WireEvent("read", TRUE, call.seq, answers))
                    /\ wire' = IF arrived THEN [wire EXCEPT !.inbuf = Tail(@)] ELSE wire
    /\ pc' = "ready"
    /\ UNCHANGED <<cfg, variant, target_vel_no, restore_vel_table, devLayout, devShortRtb,
                   devBusy, devTbl, call, table_no, pulse, orig, resp, polls, codecVars,
                   ports, isOpen, cstate, cargs, idx, serial_io, connErr, closes, ops>>

\* The controller answers the oldest frame it has not answered yet; its reply
\* line reaches the session's input buffer.
DevAnswers ==
    /\ cstate = "exchange"
    /\ wire.pending # <<>>
    /\ \E o \in DevHandle(Head(wire.pending).frame, devTbl, devBusy) :
        /\ wire' = [pending |-> Tail(wire.pending),
                    inbuf |-> Append(wire.inbuf, [raw |-> o.raw \o CRLF,
                                                  seq |-> Head(wire.pending).seq])]
        /\ devTbl' = o.tbl
        /\ devBusy' = o.busy
    /\ UNCHANGED <<cfg, variant, target_vel_no, restore_vel_table, devLayout, devShortRtb,
                   pc, call, table_no, pulse, orig, resp, exc, polls, sent, codecVars,
                   connectVars>>

ExchangeNext ==
    \/ /\ pc = "ready"
       /\ \E c \in ExchangeCommands : ExecuteSend(c.name, c.kwargs)
    \/ ExecuteReceive
    \/ DevAnswers

vars == <<motionVars, connectVars, codecVars>>

Spec == MotionInit /\ [][MotionNext]_vars

ConnectSpec == ConnectInit /\ [][ConnectNext]_vars

SerialSpec == SerialInit /\ [][SerialNext]_vars

CodecSpec == CodecInit /\ [][CodecNext]_vars

ConvertSpec == ConvertInit /\ [][ConvertNext]_vars

TableSpec == TableInit /\ [][TableNext]_vars

LoadSpec == LoadInit /\ [][LoadNext]_vars

ExchangeSpec == ExchangeInit /\ [][ExchangeNext]_vars

\* ===================================================================== claims
\* --------------------------------------------------------- shared vocabulary
MotionNames == {"move_relative", "move_absolute", "home"}

\* The entry is a read_status whose reply decoded to status "0".
IdleReply(e) ==
    /\ e.name = "read_status"
    /\ e.reply.kind = "ok"
    /\ e.reply.map["status"] = <<"0">>

\* The names of the commands of a log, a run of read_status polls written once.
RECURSIVE Shape(_)
Shape(log) ==
    IF Len(log) = 0 THEN <<>>
    ELSE IF Len(log) >= 2 /\ log[1].name = "read_status" /\ log[2].name = "read_status"
         THEN Shape(Tail(log))
         ELSE <<log[1].name>> \o Shape(Tail(log))

IsPrefix(a, b) == Len(a) <= Len(b) /\ SubSeq(b, 1, Len(a)) = a

NoCommandFailed == \A i \in 1..Len(sent) : sent[i].reply.kind = "ok"

\* The positions of the motion command in the log (at most one per call).
MotionAt == {i \in 1..Len(sent) : sent[i].name \in MotionNames}

\* The pulse value the call's length / velocity converts to.
LengthPulse(c) == TruncDiv(c.x, cfg.axes[1].pulse_per_unit)

VelocityPulse(c) == TruncDiv(c.velocity, cfg.axes[1].pulse_per_unit)

InputOutOfRange(c) ==
    \/ /\ c.name # "home"
       /\ \/ LengthPulse(c) < cfg.axes[1].min_pulse
          \/ LengthPulse(c) > cfg.axes[1].max_pulse
    \/ VelocityPulse(c) < 0
    \/ VelocityPulse(c) > cfg.axes[1].max_speed_pulse

\* C1 (as claimed): a call whose length/position or velocity converts to a pulse
\* value outside the axis bounds never returns, and no write_vel_tbl and no
\* motion command is sent for it, whatever vel_no and target slot are.
C1_RangeErrorBeforeAnyWrite ==
    (call # None /\ InputOutOfRange(call)) =>
        /\ pc # "returned"
        /\ \A i \in 1..Len(sent) : sent[i].name \notin MotionNames \cup {"write_vel_tbl"}

\* C2: with a slot applied, restore configured and no command refused, the
\* commands sent are always an initial part of: read_status polls, read_vel_tbl
\* (slot), write_vel_tbl (slot, override values), the motion command,
\* read_status polls, write_vel_tbl (slot); a call that returned sent all of
\* them.  The override write comes right after the read and before the motion
\* command, and the restore write comes right after a read_status reply "0".
C2_Pattern ==
    <<"read_status", "read_vel_tbl", "write_vel_tbl", call.name, "read_status",
      "write_vel_tbl">>

C2_OverrideOrder ==
    (call # None /\ table_no # 0 /\ restore_vel_table /\ NoCommandFailed) =>
        /\ IsPrefix(Shape(sent), C2_Pattern)
        /\ pc = "returned" => Shape(sent) = C2_Pattern
        /\ \A i \in 1..Len(sent) :
              /\ sent[i].name = "read_vel_tbl" => sent[i].kwargs.vel_no = table_no
              /\ sent[i].name = "write_vel_tbl" =>
                    /\ i > 1
                    /\ sent[i].kwargs.vel_no = table_no
                    /\ IF \A j \in MotionAt : i < j
                       THEN /\ sent[i - 1].name = "read_vel_tbl"
                            /\ sent[i].kwargs.max_vel = VelocityPulse(call)
                       ELSE IdleReply(sent[i - 1])

\* C2's case: an overriding call returned after polling a busy axis.
C2_Witness ==
    /\ pc = "returned"
    /\ table_no # 0
    /\ restore_vel_table
    /\ NoCommandFailed
    /\ \E i \in 1..Len(sent) : \E j \in MotionAt :
          i > j /\ sent[i].name = "read_status" /\ ~IdleReply(sent[i])

\* An override was applied: the override write was accepted.
OverrideApplied ==
    \E i \in 1..Len(sent) :
        /\ sent[i].name = "write_vel_tbl"
        /\ sent[i].reply.kind = "ok"
        /\ \A j \in MotionAt : i < j

\* The write_vel_tbl commands sent after the motion command.
WritesAfterMotion ==
    {i \in 1..Len(sent) : sent[i].name = "write_vel_tbl" /\ \E j \in MotionAt : j < i}

\* C3 (as claimed): once a call has ended, if an override was applied and
\* restore is configured, exactly one write_vel_tbl followed the override, and
\* each of its arguments is the value read before the override; otherwise no
\* write_vel_tbl followed the motion command.
C3_ExactlyOneRestore ==
    pc \in {"returned", "raised"} =>
        IF OverrideApplied /\ restore_vel_table
        THEN /\ Cardinality(WritesAfterMotion) = 1
             /\ \A i \in WritesAfterMotion : \A a \in DOMAIN sent[i].kwargs :
                   sent[i].kwargs[a] = IntVal(orig.val.map[a])
        ELSE WritesAfterMotion = {}

\* C4: every command other than read_status is preceded, in the same call, by a
\* read_status whose reply had status "0".
C4_IdleBeforeAnyCommand ==
    \A i \in 1..Len(sent) :
        sent[i].name # "read_status" => \E j \in 1..(i - 1) : IdleReply(sent[j])

\* C4's case: a command went out after a busy poll and then an idle one.
C4_Witness ==
    \E i \in 3..Len(sent) :
        /\ sent[i].name # "read_status"
        /\ sent[1].name = "read_status" /\ sent[1].reply.kind = "ok"
        /\ ~IdleReply(sent[1])
        /\ IdleReply(sent[i - 1])

\* C5: while a call is in ensure_idle, every command sent is read_status; the
\* wait is left (other than by an exception) exactly in the step that receives
\* a reply with status "0", and a reply with any other status keeps the call in
\* the wait, however many polls there have been.
C5_Step ==
    pc \in {"ensure1", "ensure2"} =>
        /\ sent' # sent =>
              /\ Len(sent') > 0
              /\ sent'[Len(sent')].name = "read_status"
              /\ SubSeq(sent', 1, Len(sent') - 1) \in
                    {sent, SubSeq(sent, 1, Len(sent) - 1)}
        /\ pc' \notin {pc, "raised"} => (sent' # sent /\ IdleReply(sent'[Len(sent')]))
        /\ (sent' # sent /\ IdleReply(sent'[Len(sent')])) => pc' \notin {pc, "raised"}
        /\ ( /\ sent' # sent
             /\ sent'[Len(sent')].reply.kind = "ok"
             /\ ~IdleReply(sent'[Len(sent')]) ) => pc' = pc

C5_EnsureIdlePollsUntilIdle == [][C5_Step]_vars

\* C5's case: the wait is still polling after MaxPolls busy replies.
C5_Witness ==
    /\ pc = "ensure2"
    /\ polls = MaxPolls
    /\ ~IdleReply(sent[Len(sent)])
    /\ sent[Len(sent)].reply.kind = "ok"

\* ------------------------------------------------------ connect / disconnect
\* The events of the trace of one kind, in order.
RECURSIVE EventsOf(_, _)
EventsOf(t, ev) ==
    IF Len(t) = 0 THEN <<>>
    ELSE (IF t[1].ev = ev THEN <<t[1]>> ELSE <<>>) \o EventsOf(Tail(t), ev)

Opens == EventsOf(trace, "open")

Identifies == EventsOf(trace, "identify")

\* connect was called without a port / with one.
Scanning == cargs # None /\ cargs.val.port = None

Forced == cargs # None /\ cargs.val.port # None

\* The port answers identify with a reply that decodes to the configured name.
Answers(i) ==
    /\ ports[i].fault = "none"
    /\ LET r == parse_response(variant, Strip(DecodeAscii(ports[i].line)), "identify")
       IN  /\ r.kind = "ok"
           /\ "dev_name" \in DOMAIN r.map
           /\ r.map["dev_name"] = cfg.device

\* C6 (as claimed): a scan that binds to the k-th candidate made exactly k
\* identify exchanges.
C6_ExactlyKExchanges ==
    (Scanning /\ cstate = "bound") => Len(Identifies) = serial_io.val.port

\* C6 (amended): without a forced port, candidates are opened in enumeration
\* order, each at most once; a session bound to the k-th candidate is bound to
\* the first candidate whose reply decodes to the configured device name, no
\* candidate after the k-th was opened, and exactly one identify exchange was
\* made with each of the first k candidates that could be opened (k exchanges
\* when all of them could), none with any other; until disconnect is called
\* the k-th transport is open and no other is.
C6_ScanBindsFirstMatch ==
    Scanning =>
        /\ \A n \in 1..Len(Opens) : Opens[n].port = n
        /\ \A n \in 1..Len(Identifies) :
              /\ \E m \in 1..Len(Opens) : Opens[m].port = Identifies[n].port /\ Opens[m].ok
              /\ \A m \in 1..(n - 1) : Identifies[m].port < Identifies[n].port
        /\ cstate = "bound" =>
              LET k == serial_io.val.port
              IN  /\ Answers(k)
                  /\ \A j \in 1..(k - 1) : ~Answers(j)
                  /\ Len(Opens) = k
                  /\ {Identifies[n].port : n \in 1..Len(Identifies)} =
                        {j \in 1..k : ports[j].fault # "open"}
                  /\ (\A j \in 1..k : ports[j].fault # "open") => Len(Identifies) = k
                  /\ closes = 0 =>
                        /\ serial_io.val.ser = "open"
                        /\ \A j \in 1..Len(ports) : isOpen[j] <=> j = k

\* C6's case: the scan skipped a candidate that answered with another name and
\* bound to the one after it.
C6_Witness ==
    /\ Scanning
    /\ cstate = "bound"
    /\ serial_io.val.port = 2
    /\ Len(Identifies) = 2
    /\ Identifies[1].ok

\* C7 (as claimed): when connect is given a port, no transport call is made on
\* any other port, whatever baudrate and parity are.
C7_OnlyForcedPortAttempted ==
    Forced => \A n \in 1..Len(trace) : trace[n].port = cargs.val.port.val

\* The candidates connect is to try: the forced port, or every enumerated one.
Candidates == IF Forced THEN {cargs.val.port.val} ELSE 1..Len(ports)

\* C8 (as claimed): a connect that found no matching identity ends with the
\* error that names the configured device, every candidate having been tried.
C8_DeviceNotFoundNamesDevice ==
    cstate = "raised" =>
        /\ connErr.kind = "RuntimeError"
        /\ "device" \in DOMAIN connErr
        /\ connErr.device = cfg.device
        /\ Candidates \subseteq {Opens[n].port : n \in 1..Len(Opens)}

\* C9 (as claimed): once a candidate has failed (it could not be opened, or the
\* identify exchange raised), its transport is closed and connect has raised
\* nothing but the error of an exhausted scan.
C9_CandidateFailureSwallowed ==
    \A n \in 1..Len(trace) :
        (trace[n].ev \in {"open", "identify"} /\ ~trace[n].ok) =>
            /\ ~isOpen[trace[n].port]
            /\ connErr.kind = "none" \/ "device" \in DOMAIN connErr

\* C10: every disconnect call raises nothing and leaves the transport closed;
\* a disconnect of a session already disconnected and still closed changes
\* nothing (but the count of calls).
C10_Step ==
    closes' = closes + 1 =>
        /\ connErr' = NoExc
        /\ serial_io'.val.ser = "none"
        /\ ~isOpen'[serial_io'.val.port]
        /\ (closes >= 1 /\ serial_io.val.ser = "none") =>
              UNCHANGED <<motionVars, codecVars, ports, isOpen, cstate, cargs, idx, serial_io,
                          trace, connErr>>

C10_DisconnectIdempotent == [][C10_Step]_vars

\* C10's case: disconnect was called again on a session already closed.
C10_Witness ==
    /\ cstate = "bound"
    /\ closes >= 2
    /\ ops = 0
    /\ serial_io.val.ser = "none"
    /\ connErr = NoExc

\* The messages of SerialIO's not-open errors.
NotOpenMessages == {"Serial port is not open (send)", "Serial port is not open (receive)"}

\* C11 (as claimed): an operation executed after disconnect, the transport being
\* closed, ends with the not-open error, makes no transport call (nothing is
\* opened, no bytes are sent) and leaves the session closed.
C11_Step ==
    (ops' = ops + 1 /\ cstate = "bound" /\ serial_io.val.ser = "none") =>
        /\ connErr'.kind = "RuntimeError"
        /\ connErr'.msg \in NotOpenMessages
        /\ trace' = trace
        /\ serial_io' = serial_io
        /\ isOpen' = isOpen

C11_ClosedSessionRejects == [][C11_Step]_vars

\* C12: send and receive on a SerialIO that is not open (never opened, or
\* closed) end with the not-open error, make no write and no read, and leave
\* the SerialIO and the port as they were.
C12_Step ==
    ((SioSend \/ SioReceive) /\ serial_io.val.ser # "open") =>
        /\ connErr'.kind = "RuntimeError"
        /\ connErr'.msg \in NotOpenMessages
        /\ SioSend => connErr'.msg = "Serial port is not open (send)"
        /\ trace' = trace
        /\ serial_io' = serial_io
        /\ isOpen' = isOpen
        /\ serial_io'.val.ser # "open"

C12_NotOpenRaises == [][C12_Step]_vars

\* C12's case: send was called on a SerialIO that had been opened and closed.
C12_Witness ==
    /\ cstate = "serial"
    /\ \E n \in 1..Len(trace) : trace[n].ev = "close"
    /\ serial_io.val.ser = "none"
    /\ connErr.kind = "RuntimeError"
    /\ connErr.msg = "Serial port is not open (send)"

\* C13: a frame made by generate_command is the start marker, the command's
\* three-letter code, the first serialized value directly after the code, each
\* further value preceded by "/", then CR LF; without values it is the code
\* alone between the markers. move_free with ax_num=1, vel_no=2, dir=1 gives
\* 0x02 "FRP1/2/1" CR LF.
C13_FrameLayout ==
    (cin # None /\ cin.val.op = "encode" /\ cout.val.kind = "ok") =>
        LET info == cmd_map(variant)[cin.val.name]
            kw == cin.val.kwargs
            Supplied(a) == a \in DOMAIN kw
            serialized == SelectSeq(info.args, Supplied)
            frame == cout.val.frame
            body == SubSeq(frame, 5, Len(frame) - 2)
        IN  /\ Len(info.code) = 3
            /\ Len(frame) >= 6
            /\ frame[1] = "STX"
            /\ SubSeq(frame, 2, 4) = info.code
            /\ SubSeq(frame, Len(frame) - 1, Len(frame)) = <<"CR", "LF">>
            /\ Len(serialized) = 0 => body = <<>>
            /\ Len(serialized) > 0 =>
                    /\ Len(body) > 0
                    /\ body[1] # "/"
                    /\ SplitAll(body, "/", <<>>) = [i \in 1..Len(serialized) |-> Str(kw[serialized[i]])]
            /\ (/\ cin.val.name = "move_free"
                /\ DOMAIN kw = {"ax_num", "vel_no", "dir"}
                /\ kw["ax_num"] = 1 /\ kw["vel_no"] = 2 /\ kw["dir"] = 1) =>
                    frame = <<"STX", "F", "R", "P", "1", "/", "2", "/", "1", "CR", "LF">>

\* C13's case: move_free was encoded with ax_num=1, vel_no=2, dir=1.
C13_Witness ==
    /\ cin # None
    /\ cin.val.op = "encode"
    /\ cin.val.name = "move_free"
    /\ DOMAIN cin.val.kwargs = {"ax_num", "vel_no", "dir"}
    /\ cin.val.kwargs["ax_num"] = 1
    /\ cin.val.kwargs["vel_no"] = 2
    /\ cin.val.kwargs["dir"] = 1
    /\ cout.val.kind = "ok"
    /\ Len(cout.val.frame) = 11

\* C14: generate_command serializes exactly the arguments that the command
\* declares and the caller supplied, in the declared order; a declared argument
\* that was not supplied is left out without an error, and a supplied argument
\* that is not declared never appears. (The keyword arguments are a mapping read
\* by key only, so the order of supply has no way to reach the frame.)
C14_DeclaredSuppliedInOrder ==
    (cin # None /\ cin.val.op = "encode" /\ cin.val.name \in DOMAIN cmd_map(variant)) =>
        /\ cout.val.kind = "ok"
        /\ LET declared == cmd_map(variant)[cin.val.name].args
               kw == cin.val.kwargs
               frame == cout.val.frame
               body == SubSeq(frame, 5, Len(frame) - 2)
               values == IF body = <<>> THEN <<>> ELSE SplitAll(body, "/", <<>>)
               \* the j-th declared argument that was supplied
               Nth(j) == CHOOSE a \in Range(declared) \cap DOMAIN kw :
                            Cardinality({b \in Range(declared) \cap DOMAIN kw :
                                IndexOf(declared, b) < IndexOf(declared, a)}) = j - 1
           IN  /\ Len(values) = Cardinality(Range(declared) \cap DOMAIN kw)
               /\ \A j \in 1..Len(values) : values[j] = Str(kw[Nth(j)])

\* C14's case: write_vel_tbl was encoded under the default table with dec_time
\* (not declared there), max_vel and vel_no supplied and the other declared
\* arguments not supplied.
C14_Witness ==
    /\ cin # None
    /\ cin.val.op = "encode"
    /\ variant = "default"
    /\ cin.val.name = "write_vel_tbl"
    /\ DOMAIN cin.val.kwargs = {"dec_time", "max_vel", "vel_no"}
    /\ cin.val.kwargs["dec_time"] = 1
    /\ cin.val.kwargs["max_vel"] = 0
    /\ cin.val.kwargs["vel_no"] = 12
    /\ cout.val.frame = <<"STX", "W", "T", "B", "1", "2", "/", "0", "CR", "LF">>

\* The tokens of the decoded reply that stand for fields: the value tokens,
\* preceded by what the echo token leaves behind.
Positional ==
    LET v == ValueTokens(cin.val.n)
    IN  CASE cin.val.echo \in {"none", "code"} -> v
          [] cin.val.echo = "fused" -> <<<<"1", "2">>>> \o v
          [] cin.val.echo = "alpha" -> <<CodeOf(cin.val.name) \o <<"x">>>> \o v
          [] OTHER -> <<<<"Z", "Z">>>> \o v

\* parse_response was called on a reply with the given prefixes for a command
\* of the active table.
DecodedWith(prefixes) ==
    /\ cin # None
    /\ cin.val.op = "decode"
    /\ cin.val.prefix \in prefixes
    /\ cin.val.name \in DOMAIN cmd_map(variant)

\* C15: decoding a reply with prefix E never returns a field mapping; when the
\* positional tokens match the command's error-field list, the error raised
\* carries the token of ax_num (when ax_num is an error field) and the token of
\* error_num (when error_num is an error field).
C15_ErrorReplyRaises ==
    DecodedWith({"E"}) =>
        LET fields == cmd_map(variant)[cin.val.name].res_e
        IN  /\ cout.val.kind # "ok"
            /\ Len(Positional) = Len(fields) =>
                    /\ cout.val.kind = "RuntimeError"
                    /\ cout.val.msg = "failed during execution"
                    /\ \A i \in 1..Len(fields) :
                           /\ fields[i] = "ax_num" => cout.val.ax = <<Positional[i]>>
                           /\ fields[i] = "error_num" => cout.val.err = <<Positional[i]>>
                    /\ "ax_num" \notin Range(fields) => cout.val.ax = <<>>

\* C15's case: "E RPS 1 2" was decoded for move_relative.
C15_Witness ==
    /\ DecodedWith({"E"})
    /\ cin.val.name = "move_relative"
    /\ cin.val.text = <<"E", " ", "R", "P", "S", " ", "1", " ", "2", "CR", "LF">>
    /\ cout.val.kind = "RuntimeError"
    /\ cout.val.ax = <<<<"1">>>>
    /\ cout.val.err = <<<<"2">>>>

\* C16: decoding a reply whose first token is neither C nor E fails with a
\* malformed-response error: it returns no mapping and raises no device error.
C16_OtherPrefixMalformed ==
    DecodedWith(Prefixes \ {"C", "E"}) => cout.val.kind = "ValueError"

\* C17: after the prefix and the echo are removed, the i-th remaining token is
\* paired with the i-th field of the success list (prefix C) or of the error
\* list (prefix E); when the counts differ and no fallback layout matches,
\* decoding fails with the length-mismatch error for C and for E replies alike
\* and returns no mapping.
C17_PositionalPairing ==
    DecodedWith({"C", "E"}) =>
        LET info == cmd_map(variant)[cin.val.name]
            success == cin.val.prefix = "C"
            fields == IF success THEN info.res_c ELSE info.res_e
            base == IF cin.val.name \notin DOMAIN default_map THEN <<>>
                    ELSE IF success THEN default_map[cin.val.name].res_c
                    ELSE default_map[cin.val.name].res_e
            fallback == cin.val.name = "read_vel_tbl" /\ Len(Positional) = Len(base)
        IN  /\ (Len(Positional) = Len(fields) /\ success) =>
                    /\ cout.val.kind = "ok"
                    /\ DOMAIN cout.val.map = Range(fields)
                    /\ \A i \in 1..Len(fields) : cout.val.map[fields[i]] = Positional[i]
            /\ (Len(Positional) = Len(fields) /\ ~success) =>
                    /\ cout.val.kind = "RuntimeError"
                    /\ \A i \in 1..Len(fields) :
                           /\ fields[i] = "ax_num" => cout.val.ax = <<Positional[i]>>
                           /\ fields[i] = "error_num" => cout.val.err = <<Positional[i]>>
            /\ (Len(Positional) # Len(fields) /\ ~fallback) =>
                    /\ cout.val.kind = "ValueError"
                    /\ cout.val.msg = "length mismatch"

\* C17's case: "C RDP 1 2" was decoded for read_position.
C17_Witness ==
    /\ DecodedWith({"C"})
    /\ cin.val.name = "read_position"
    /\ cin.val.text = <<"C", " ", "R", "D", "P", " ", "1", " ", "2", "CR", "LF">>
    /\ cout.val.kind = "ok"
    /\ cout.val.map["ax_num"] = <<"1">>
    /\ cout.val.map["pos"] = <<"2">>

\* C18: in a decoded reply, a token after the prefix that equals the command's
\* code is dropped; one that is the code followed only by digits is replaced by
\* the digits, which become the first positional token ("C FRP12" for move_free
\* gives ax_num "12"); any other token (another word, the code followed by a
\* letter, a value) is kept unchanged as the first positional token.
C18_EchoToken ==
    DecodedWith({"C"}) =>
        LET info == cmd_map(variant)[cin.val.name]
            fields == info.res_c
            echo == cin.val.echo
            kept == echo \in {"fused", "alpha", "other"}
            first == CASE echo = "fused" -> <<"1", "2">>
                       [] echo = "alpha" -> info.code \o <<"x">>
                       [] echo = "other" -> <<"Z", "Z">>
                       [] OTHER -> <<"1">>
            count == cin.val.n + (IF kept THEN 1 ELSE 0)
        IN  /\ count = Len(fields) =>
                    /\ cout.val.kind = "ok"
                    /\ Len(fields) >= 1 => cout.val.map[fields[1]] = first
                    /\ \A i \in 2..Len(fields) :
                           cout.val.map[fields[i]] = Str(IF kept THEN i - 1 ELSE i)
            /\ (count # Len(fields) /\ cin.val.name # "read_vel_tbl") =>
                    cout.val.kind = "ValueError"

\* C18's case: "C FRP12" was decoded for move_free.
C18_Witness ==
    /\ DecodedWith({"C"})
    /\ cin.val.name = "move_free"
    /\ cin.val.text = <<"C", " ", "F", "R", "P", "1", "2", "CR", "LF">>
    /\ cout.val.kind = "ok"
    /\ cout.val.map["ax_num"] = <<"1", "2">>

\* C19: for read_vel_tbl a reply whose token count does not match the active
\* table's field list but matches the default table's is decoded with the
\* default layout (under aries six success tokens give the six default fields
\* and nine tokens the nine aries fields); for every other command, and for
\* read_vel_tbl when neither layout matches, a count mismatch fails with the
\* length-mismatch error.
C19_VelTblFallback ==
    DecodedWith(Prefixes) =>
        LET name == cin.val.name
            success == cin.val.prefix = "C"
            active == IF success THEN cmd_map(variant)[name].res_c
                      ELSE cmd_map(variant)[name].res_e
            base == IF name \notin DOMAIN default_map THEN <<>>
                    ELSE IF success THEN default_map[name].res_c
                    ELSE default_map[name].res_e
            cnt == Len(Positional)
            velTbl == name = "read_vel_tbl"
        IN  /\ (velTbl /\ success /\ cnt # Len(active) /\ cnt = Len(base)) =>
                    /\ cout.val.kind = "ok"
                    /\ DOMAIN cout.val.map = Range(base)
                    /\ \A i \in 1..Len(base) : cout.val.map[base[i]] = Positional[i]
            /\ (velTbl /\ success /\ variant = "aries" /\ cnt = 6) =>
                    /\ cout.val.kind = "ok"
                    /\ DOMAIN cout.val.map =
                           {"ax_num", "vel_no", "start_vel", "max_vel", "acc_time", "acc_type"}
            /\ (velTbl /\ success /\ variant = "aries" /\ cnt = 9) =>
                    /\ cout.val.kind = "ok"
                    /\ DOMAIN cout.val.map =
                           {"ax_num", "vel_no", "start_vel", "max_vel", "acc_time",
                            "dec_time", "acc_type", "acc_pulse", "dec_pulse"}
            /\ (cnt # Len(active) /\ (~velTbl \/ cnt # Len(base))) =>
                    /\ cout.val.kind = "ValueError"
                    /\ cout.val.msg = "length mismatch"

\* C19's case: a read_vel_tbl reply with six values was decoded under aries.
C19_Witness ==
    /\ DecodedWith({"C"})
    /\ variant = "aries"
    /\ cin.val.name = "read_vel_tbl"
    /\ cin.val.echo = "code"
    /\ cin.val.n = 6
    /\ cout.val.kind = "ok"
    /\ "dec_time" \notin DOMAIN cout.val.map
    /\ cout.val.map["acc_type"] = <<"6">>

\* C20: generate_command and parse_response of a name that the active table
\* lacks fail with the unknown-command error and give no frame and no mapping;
\* the active table follows the variant given at construction, so read_axis is
\* accepted under aries and rejected under default.
C20_UnknownCommand ==
    cin # None =>
        LET name == cin.val.name
            known == \/ name \in DOMAIN default_map
                     \/ variant = "aries" /\ name = "read_axis"
            unknownCommand == /\ cout.val.kind = "ValueError"
                              /\ cout.val.msg \in {"Invalid command", "Unknown command"}
        IN  /\ ~known => unknownCommand
            /\ known => ~unknownCommand
            /\ (known /\ cin.val.op = "encode") =>
                    cout.val.kind = "ok" /\ Len(cout.val.frame) >= 6

\* C20's case: read_axis was encoded under the default variant.
C20_Witness ==
    /\ cin # None
    /\ cin.val.op = "encode"
    /\ variant = "default"
    /\ cin.val.name = "read_axis"
    /\ cout.val.kind = "ValueError"
    /\ cout.val.msg = "Invalid command"

\* C21: for every command of the active table and every assignment of its
\* arguments, decoding the controller's verbatim echo of the encoded request
\* (the prefix C followed by the encoded body) returns a mapping in which each
\* success field that is also a supplied argument has the text of the value.
C21_EchoRoundTrip ==
    (/\ cin # None
     /\ cin.val.op = "roundtrip"
     /\ cin.val.name \in DOMAIN cmd_map(variant)) =>
        LET info == cmd_map(variant)[cin.val.name]
            kw == cin.val.kwargs
        IN  /\ cout.val.kind = "ok"
            /\ \A f \in Range(info.res_c) \cap Range(info.args) \cap DOMAIN kw :
                   cout.val.map[f] = Str(kw[f])

\* C22: decoding the reply "C ax_num 1" for move_free returns the mapping
\* {ax_num: "1"}.
C22_LabelledReply ==
    (/\ cin # None
     /\ cin.val.op = "decode_labelled"
     /\ cin.val.name = "move_free"
     /\ cin.val.text = <<"C", " ", "a", "x", "_", "n", "u", "m", " ", "1">>) =>
        /\ cout.val.kind = "ok"
        /\ DOMAIN cout.val.map = {"ax_num"}
        /\ cout.val.map["ax_num"] = <<"1">>

\* A conversion named op was applied to an input.
Converted(op) == cin # None /\ cstate = "convert" /\ cin.val.op = op

\* C23: length_unit_to_pulse returns the value multiplied by pulse_per_unit
\* (truncated toward zero) whenever that product is within the pulse range, and
\* pulse_to_length_unit returns the pulse count divided by pulse_per_unit; the
\* velocity conversions use the same factor. With pulse_per_unit 10 and the
\* range [0, 1000], length 2 gives pulse 20 and pulse 20 gives length 2.
C23_MultipliesByFactor ==
    LET ppu == Axis.pulse_per_unit
        x == cin.val.x
        fwd == cout.val.fwd
    IN  /\ (Converted("length_unit_to_pulse")
             /\ x * ppu >= Axis.min_pulse /\ x * ppu <= Axis.max_pulse) =>
                fwd.kind = "ok" /\ fwd.val = x * ppu
        /\ (Converted("velocity_unit_to_pulse")
             /\ x * ppu >= 0 /\ x * ppu <= Axis.max_speed_pulse) =>
                fwd.kind = "ok" /\ fwd.val = x * ppu
        /\ (Converted("pulse_to_length_unit") /\ fwd.kind = "ok") => fwd.val * ppu = x
        /\ (Converted("pulse_to_velocity_unit") /\ fwd.kind = "ok") => fwd.val * ppu = x

WriteVelTblCalled == call # None /\ call.name = "write_vel_tbl"

\* The positions in the log of the commands with the given name.
SentAs(name) == {i \in 1..Len(sent) : sent[i].name = name}

\* C26: a write_vel_tbl call whose acc_time is an integer outside [1, 10000]
\* (0 and the negative values included) does not return, and when it raises the
\* acc_time error no command has been executed on the transport.
C26_AccTimeRejectedFirst ==
    (/\ WriteVelTblCalled
     /\ call.acc_time # None
     /\ call.acc_time.val \notin 1..10000) =>
        /\ pc # "returned"
        /\ (pc = "raised" /\ exc.msg = "acc_time out of global range") => sent = <<>>

\* C27: a write_vel_tbl call whose acc_type is outside the variant's set ({1, 2}
\* for default, {1, 2, 3} for aries), or whose dec_time is outside [1, 10000]
\* while the variant's write command takes a dec_time, does not return and
\* executes no write_vel_tbl command; an omitted acc_type is written as 1.
C27_TypeAndDecTimeRejected ==
    WriteVelTblCalled =>
        LET badType == /\ call.acc_type # None
                       /\ call.acc_type.val \notin
                              (IF variant = "aries" THEN {1, 2, 3} ELSE {1, 2})
            badDec == /\ "dec_time" \in Range(cmd_map(variant)["write_vel_tbl"].args)
                      /\ call.dec_time # None
                      /\ call.dec_time.val \notin 1..10000
        IN  /\ (badType \/ badDec) => (pc # "returned" /\ SentAs("write_vel_tbl") = {})
            /\ call.acc_type = None =>
                   \A i \in SentAs("write_vel_tbl") : sent[i].kwargs["acc_type"] = 1

\* C28: a write_vel_tbl call that returns has executed exactly two commands,
\* read_vel_tbl for the slot and then write_vel_tbl for the same slot, and the
\* start_vel written is 0.8 times the max_vel written, truncated toward zero
\* (max_vel 20 gives start_vel 16).
C28_ReadThenWrite ==
    (WriteVelTblCalled /\ pc = "returned") =>
        /\ Len(sent) = 2
        /\ sent[1].name = "read_vel_tbl"
        /\ sent[1].kwargs = [ax_num |-> call.axis, vel_no |-> call.vel_no]
        /\ sent[1].reply.kind = "ok"
        /\ sent[2].name = "write_vel_tbl"
        /\ sent[2].kwargs["ax_num"] = call.axis
        /\ sent[2].kwargs["vel_no"] = call.vel_no
        /\ sent[2].reply.kind = "ok"
        /\ LET mx == sent[2].kwargs["max_vel"]
               st == sent[2].kwargs["start_vel"]
           IN  /\ mx >= 0
               /\ 10 * st <= 8 * mx
               /\ 8 * mx < 10 * (st + 1)
               /\ mx = 20 => st = 16

\* C28's case: a write_vel_tbl call with max pulse 20 returned.
C28_Witness ==
    /\ WriteVelTblCalled
    /\ pc = "returned"
    /\ Len(sent) = 2
    /\ sent[2].kwargs["max_vel"] = 20
    /\ sent[2].kwargs["start_vel"] = 16

\* C29: every axis of a configuration that connect accepted has
\* min_pulse <= max_pulse and pulse_per_unit > 0, and no two of its axes share
\* an ax_num; a configuration without these properties is rejected and never
\* becomes the session's configuration.
C29_CalibrationInvariant ==
    cfg # None =>
        /\ \A i \in 1..Len(cfg.axes) :
               /\ cfg.axes[i].min_pulse <= cfg.axes[i].max_pulse
               /\ cfg.axes[i].pulse_per_unit > 0
        /\ \A i, j \in 1..Len(cfg.axes) :
               cfg.axes[i].ax_num = cfg.axes[j].ax_num => i = j

\* C30: a configuration whose axes_sum differs from the number of its axes
\* entries is rejected when it is loaded: no configuration is produced, connect
\* ends with the validation error, and no transport is created or opened.
C30_AxesSumMismatchRejected ==
    (cstate \in {"unloaded", "raised", "override_open", "override_probe", "scan_open",
                 "scan_probe", "bound"}
     /\ cin # None /\ "axes_sum" \in DOMAIN cin.val
     /\ cin.val.axes_sum # Len(cin.val.axes)) =>
        /\ cfg = None
        /\ serial_io = None
        /\ trace = <<>>
        /\ \A i \in 1..Len(isOpen) : ~isOpen[i]
        /\ cstate \in {"unloaded", "raised"}
        /\ cstate = "raised" => connErr.kind = "ValidationError"

\* C30's case: connect was called on a file whose only fault is an axes_sum of
\* 1 for two axes entries, with a port that could have been opened.
C30_Witness ==
    /\ cstate = "raised"
    /\ cfg = None
    /\ connErr.kind = "ValidationError"
    /\ cin.val.axes_sum = 1
    /\ Len(cin.val.axes) = 2
    /\ \A i \in 1..2 : AxisConfig(cin.val.axes[i])
    /\ SerialConfig(cin.val.serial)
    /\ Len(ports) = 1
    /\ ports[1].fault = "none"

\* The position of the override write in the log: the accepted write_vel_tbl
\* that precedes the motion command, or that ended the log when the call
\* raised before it.
OverrideWrites ==
    {i \in 1..Len(sent) :
        /\ sent[i].name = "write_vel_tbl"
        /\ sent[i].reply.kind = "ok"
        /\ i > 1 /\ sent[i - 1].name = "read_vel_tbl"}

\* C31 (as claimed): with restore configured, a call that wrote a temporary
\* override and has ended, by returning or by raising, sent after the override
\* a write_vel_tbl for the same slot that carries the values captured before
\* the override.
C31_RestoredOnEveryExit ==
    (pc \in {"returned", "raised"} /\ restore_vel_table /\ OverrideWrites # {}) =>
        \A i \in OverrideWrites : \E j \in (i + 1)..Len(sent) :
            /\ sent[j].name = "write_vel_tbl"
            /\ sent[j].kwargs.vel_no = table_no
            /\ \A a \in DOMAIN sent[j].kwargs :
                   sent[j].kwargs[a] = IntVal(orig.val.map[a])

\* C32 (as claimed): when the motion command of a call is about to be sent, the
\* velocity-table slot the command names holds, in the controller, a max_vel
\* equal to the call's velocity in pulses; for every slot number, 0 included.
C32_SlotHoldsVelocity ==
    pc = "motion" => devTbl[table_no].max_vel = VelocityPulse(call)

\* C33 (as claimed): once the motion command has been answered with success,
\* the call reaches the idle wait that follows it: if the call raised, a
\* read_status was sent after the motion command.
C33_ReachesSecondIdleWait ==
    (resp # None /\ pc = "raised") =>
        \E i \in 1..Len(sent) : \E j \in MotionAt :
            j < i /\ sent[i].name = "read_status"

\* The ports on which a serial.Serial handle is open.
OpenPorts == {i \in 1..Len(isOpen) : isOpen[i]}

\* C34 (as claimed): when connect has ended by raising, on the forced port or
\* after the scan, no transport it opened is still open; when it has returned
\* a session, exactly the bound transport is open.
C34_NoTransportLeftOpen ==
    /\ cstate = "raised" => OpenPorts = {}
    /\ (cstate = "bound" /\ closes = 0 /\ ops = 0) => OpenPorts = {serial_io.val.port}

\* C35: during the scan at most one candidate transport is open at any time.
\* Between two candidates no port is open and the SerialIO in hand holds no
\* handle; while a candidate is probed it is the only open port; and every
\* candidate whose identify exchange was made before the current one has been
\* closed in between.
C35_ScanIsExclusive ==
    /\ cstate = "scan_open" =>
          /\ OpenPorts = {}
          /\ serial_io # None => serial_io.val.ser = "none"
    /\ cstate = "scan_probe" => OpenPorts = {idx}
    /\ cstate \in {"scan_open", "scan_probe"} =>
          \A i \in 1..Len(trace) :
              (trace[i].ev = "identify" /\ trace[i].port < idx) =>
                  /\ i < Len(trace)
                  /\ trace[i + 1] = Event("close", trace[i].port, TRUE)

\* C35's case: the second candidate is open after the first one, which
\* answered as another device, was closed.
C35_Witness ==
    /\ cstate = "scan_probe"
    /\ idx = 2
    /\ isOpen = <<FALSE, TRUE>>
    /\ trace[2] = Event("identify", 1, TRUE)
    /\ trace[3] = Event("close", 1, TRUE)

\* C37 (as claimed): when the caller passes an explicit vel_no, 0 included, every
\* command of the call that names a slot names exactly that slot; the session's
\* target slot is named only when vel_no is omitted.
C37_ExplicitSlotUsed ==
    (call # None /\ call.name \in MotionNames) =>
        \A i \in 1..Len(sent) : "vel_no" \in DOMAIN sent[i].kwargs =>
            sent[i].kwargs.vel_no = IF call.vel_no # None THEN call.vel_no.val
                                    ELSE target_vel_no

\* The number of values in the frame generate_command builds for the entry.
FrameValues(e) == Len(DevDecode(generate_command(variant, e.name, e.kwargs).frame).vals)

\* C38 (as claimed): every write_vel_tbl frame of a motion call (override or
\* restore) carries as many values as the write_vel_tbl command of the active
\* variant declares arguments, also when the entry read before it was decoded
\* through the base-layout fallback.
C38_WriteFrameComplete ==
    \A i \in 1..Len(sent) :
        (sent[i].name = "write_vel_tbl"
         /\ generate_command(variant, sent[i].name, sent[i].kwargs).kind = "ok") =>
            FrameValues(sent[i]) = Len(cmd_map(variant)["write_vel_tbl"].args)

\* The time a temporary override writes for a time t read from the entry m:
\* t times the new max pulse over the entry's max_vel, truncated, at least 1;
\* the ratio is 1 when the entry's max_vel is 0.
ExpectedTime(t, m) ==
    LET orig_max == IntVal(m["max_vel"])
        scaled == IF orig_max = 0 THEN t ELSE (t * VelocityPulse(call)) \div orig_max
    IN  IF scaled < 1 THEN 1 ELSE scaled

FramesWritten == {i \in 1..Len(trace) : trace[i].ev = "write" /\ trace[i].ok}

\* C36 (as claimed): frames written to the transport and replies read from it
\* alternate, starting with a write: between two frames written, the reply to
\* the first of them has been read.
C36_WriteReadAlternate ==
    cstate = "exchange" =>
        /\ trace # <<>> => trace[1].ev = "write"
        /\ \A i, j \in FramesWritten : i < j =>
               \E k \in (i + 1)..(j - 1) :
                   /\ trace[k].ev = "read"
                   /\ trace[k].ok
                   /\ trace[k].answers = trace[i].seq

\* C40 (as claimed): the reply line decoded for a command is the controller's
\* reply to that same command; after a receive that timed out, the late reply
\* to the earlier command is not decoded as the reply to a later command.
C40_ReplyBelongsToCommand ==
    cstate = "exchange" =>
        \A i \in 1..Len(sent) : sent[i].answers \in {0, sent[i].seq}

====
